---- MODULE Spec2Model ----
(***************************************************************************)
(* Model of the transaction builder of rose-rs (SpendBuilder / TxBuilder)  *)
(* together with the pieces of the data model the builder's fee            *)
(* accounting depends on (word counts of seeds and witnesses, the z-set    *)
(* used by memo placement).                                                *)
(*                                                                         *)
(* Amounts (Nicks) are u64 in the source.  Every subtraction that would    *)
(* go below zero, every failed assert!/expect, is an abort of the calling  *)
(* process: the model records it in `aborted` and stops.                   *)
(***************************************************************************)
EXTENDS Integers, Sequences, FiniteSets, TLC

\* ------------------------------------------------------------------ bounds
\* TxBuilder calls in one run
MaxCalls == 3
\* longest `notes` vector handed to simple_spend_base / simple_spend
MaxNotes == 2
\* the same, where simple_spend_base is exercised alone
MaxSimpleNotes == 3
\* seeds pushed by hand on a SpendBuilder
MaxDraftSeeds == 2
\* calls of fee / compute_refund / sign on a SpendBuilder built by hand
MaxDraftOps == 3
\* the values inserted into one z-set or z-map
MaxInserts == 3

\* ------------------------------------------------------- program constants
MIN_FEE == 256
\* fee heuristic per missing signature, in words
MissingSigWords == 35
\* words one (pkh, pubkey, signature) entry adds to the witness noun:
\* 5 (digest) + 13 (point) + 16 (c, s) + 1 (the extra empty child of the z-map)
SigEntryWords == 35
\* words of a digest
DigestWords == 5

\* ---------------------------------------------------------------- universe
\* pubkey hashes of the signing keys
Keys == {"k1", "k2"}
\* lock roots that receive seeds (1-of-1 pkh locks, named by their pkh)
RefundPkh == "rf"
Recipients == {"r1", "rf"}
None == "none"

Min(a, b) == IF a < b THEN a ELSE b
Max(a, b) == IF a > b THEN a ELSE b

PkhPrim(m, hs) == [t |-> "pkh", m |-> m, hashes |-> hs]
TimPrim == [t |-> "tim", m |-> 0, hashes |-> {}]
HaxPrim(hs) == [t |-> "hax", m |-> 0, hashes |-> hs]
BrnPrim == [t |-> "brn", m |-> 0, hashes |-> {}]

\* the input notes the wallet holds: name |-> assets, spend condition.
\* Names are ordered as the integers are.
NoteTable ==
  << [assets |-> 1000, cond |-> <<PkhPrim(1, {"k1"}), TimPrim>>],
     [assets |-> 3000, cond |-> <<PkhPrim(1, {"k1", "k2"})>>],
     [assets |-> 1044, cond |-> <<PkhPrim(1, {"k1"}), PkhPrim(1, {"k1", "k2"})>>] >>
NoteNames == 1..Len(NoteTable)

\* preimages (nouns) and their digests
Preimages == {"p1", "p2", "p9"}
PreimageHash(p) == CASE p = "p1" -> "h1" [] p = "p2" -> "h2" [] OTHER -> "h9"

\* further notes, named Len(NoteTable)+1 ..: a 2-of-2 note with a hash lock,
\* a burn note, a V0 note, a V2 note
ExtraNoteTable ==
  << [assets |-> 2000, version |-> "V1", cond |-> <<PkhPrim(2, {"k1", "k2"}), HaxPrim({"h1", "h2"})>>],
     [assets |-> 1500, version |-> "V1", cond |-> <<PkhPrim(1, {"k1"}), BrnPrim>>],
     [assets |-> 1200, version |-> "V0", cond |-> <<PkhPrim(1, {"k1"})>>],
     [assets |-> 1300, version |-> "V2", cond |-> <<PkhPrim(1, {"k2"})>>] >>
ExtraNotes == (Len(NoteTable) + 1)..(Len(NoteTable) + Len(ExtraNoteTable))
HaxNote == 4
BrnNote == 5
LegacyNote == 6
LaterNote == 7
NoteAssets(n) ==
  IF n \in NoteNames THEN NoteTable[n].assets ELSE ExtraNoteTable[n - Len(NoteTable)].assets
NoteCond(n) ==
  IF n \in NoteNames THEN NoteTable[n].cond ELSE ExtraNoteTable[n - Len(NoteTable)].cond
\* Note.version
NoteVersion(n) ==
  IF n \in NoteNames THEN "V1" ELSE ExtraNoteTable[n - Len(NoteTable)].version

\* the argument values the calls are tried with
FeePerWords == {1, 8}
Gifts == {0, 745, 2700}
WideGifts == {0, 745, 1000, 2700, 4000, 6000}
Fees == {0, 252, 700}
DraftGifts == {300, 700}
DraftFees == {0, 300, 1200}
\* the memo argument: 0 is None, MemoAtom is Some(Atom(7))
MemoAtom == 7
Memos == {0, MemoAtom}

\* ------------------------------------------------------------- word counts
\* words of a z-set / z-map noun with k nodes whose payloads have w words in
\* total: every node is (payload, left, right) and the k+1 empty children
\* are the atom 0
TreeWords(k, w) == w + k + 1

\* words of SpendCondition::new_pkh(Pkh::single(h)):
\* [%pkh m (z-set of one digest)] and the list terminator
SinglePkhLockWords == (2 + TreeWords(1, DigestWords)) + 1

\* Seed::note_data_words: the note-data z-set holds a "lock" entry
\* (key, (0, spend condition)) when lock data was included and a "memo"
\* entry (key, atom) for every distinct memo that was pushed
NoteDataWords(data, memos) ==
  LET nm == Cardinality({memos[i] : i \in DOMAIN memos})
      k == (IF data THEN 1 ELSE 0) + nm
      w == (IF data THEN 2 + SinglePkhLockWords ELSE 0) + 2 * nm
  IN TreeWords(k, w)

PrimWords(p) ==
  CASE p.t = "pkh" -> 2 + TreeWords(Cardinality(p.hashes), DigestWords * Cardinality(p.hashes))
    [] p.t = "tim" -> 6
    [] p.t = "hax" -> 1 + TreeWords(Cardinality(p.hashes), DigestWords * Cardinality(p.hashes))
    [] OTHER -> 2

RECURSIVE CondWords(_)
CondWords(c) == IF c = <<>> THEN 1 ELSE PrimWords(Head(c)) + CondWords(Tail(c))

\* ------------------------------------------------------------------- seeds
RECURSIVE SumGifts(_)
SumGifts(seeds) == IF seeds = <<>> THEN 0 ELSE Head(seeds).gift + SumGifts(Tail(seeds))

RECURSIVE SumSeedWords(_)
SumSeedWords(seeds) ==
  IF seeds = <<>> THEN 0
  ELSE NoteDataWords(Head(seeds).data, Head(seeds).memos) + SumSeedWords(Tail(seeds))

\* SpendBuilder::build_seed
build_seed(sb, lock, gift, include_lock_data) ==
  [lock |-> lock, gift |-> gift, data |-> include_lock_data, memos |-> <<>>, parent |-> sb.name]

\* Spend::sig_hash: the set of seeds and the fee
sig_hash(sb) == [seeds |-> {sb.seeds[i] : i \in DOMAIN sb.seeds}, fee |-> sb.fee]

\* ------------------------------------------------------------ SpendBuilder
\* SpendBuilder::new
SpendBuilder_new(n, refund_lock) ==
  [name |-> n, assets |-> NoteAssets(n), cond |-> NoteCond(n), refund_lock |-> refund_lock,
   fee |-> 0, seeds |-> <<>>, sigs |-> <<>>, hax |-> {},
   version |-> NoteVersion(n),
   variant |-> IF NoteVersion(n) = "V0" THEN "legacy" ELSE "witness"]

\* a Spend handed to from_spend: its variant, the root of its lock merkle
\* proof (the spend condition it was made for), its fee
SpendValue(variant, root, fee_portion) ==
  [variant |-> variant, root |-> root, fee |-> fee_portion, seeds |-> <<>>, sigs |-> <<>>,
   hax |-> {}]

\* SpendBuilder::from_spend: <<>> is None
from_spend_V1Only(sp, n, spend_condition, refund_lock) ==
  LET sb == [name |-> n, assets |-> NoteAssets(n), cond |-> spend_condition,
             refund_lock |-> refund_lock, fee |-> sp.fee, seeds |-> sp.seeds,
             sigs |-> sp.sigs, hax |-> sp.hax, version |-> NoteVersion(n),
             variant |-> sp.variant]
  IN IF NoteVersion(n) = "V0"
     THEN IF sp.variant # "legacy" THEN <<>> ELSE <<sb>>
     ELSE IF NoteVersion(n) = "V1" /\ sp.variant # "witness" THEN <<>>
     ELSE IF sp.variant = "witness" /\ sp.root # spend_condition THEN <<>>
     ELSE <<sb>>
from_spend(sp, n, spend_condition, refund_lock) ==
  LET sb == [name |-> n, assets |-> NoteAssets(n), cond |-> spend_condition,
             refund_lock |-> refund_lock, fee |-> sp.fee, seeds |-> sp.seeds,
             sigs |-> sp.sigs, hax |-> sp.hax, version |-> NoteVersion(n),
             variant |-> sp.variant]
  IN IF NoteVersion(n) = "V0"
     THEN IF sp.variant # "legacy" THEN <<>> ELSE <<sb>>
     ELSE IF sp.variant # "witness" THEN <<>>
     ELSE IF sp.root # spend_condition THEN <<>>
     ELSE <<sb>>

\* SpendBuilder::invalidate_sigs
invalidate_sigs(sb) == [sb EXCEPT !.sigs = <<>>]

\* SpendBuilder::fee
fee(sb, fee_portion) ==
  [(IF sb.fee # fee_portion THEN invalidate_sigs(sb) ELSE sb) EXCEPT !.fee = fee_portion]

\* SpendBuilder::seed
seed(sb, s) == [invalidate_sigs(sb) EXCEPT !.seeds = Append(sb.seeds, s)]

\* the seeds locked to the refund lock
RefundSeeds(sb) == SelectSeq(sb.seeds, LAMBDA v : v.lock = sb.refund_lock)
OtherSeeds(sb) == SelectSeq(sb.seeds, LAMBDA v : v.lock # sb.refund_lock)

\* SpendBuilder::cur_refund: the first seed locked to the refund lock
HasRefund(sb) == sb.refund_lock # None /\ RefundSeeds(sb) # <<>>
cur_refund(sb) == Head(RefundSeeds(sb))
RefundGift(sb) == IF HasRefund(sb) THEN cur_refund(sb).gift ELSE 0

\* SpendBuilder::is_balanced
is_balanced(sb) == sb.assets = SumGifts(sb.seeds) + sb.fee

\* the u64 subtraction of compute_refund goes below zero
RefundUnderflow(sb) ==
  sb.refund_lock # None /\ sb.assets < sb.fee + SumGifts(OtherSeeds(sb))

\* the first memo entry of the previous refund seed, if any
PreservedMemo(sb) ==
  IF HasRefund(sb) /\ cur_refund(sb).memos # <<>> THEN <<Head(cur_refund(sb).memos)>> ELSE <<>>

\* SpendBuilder::compute_refund (where the subtraction does not underflow)
compute_refund_AtEnd(sb, include_lock_data) ==
  IF sb.refund_lock = None THEN sb
  ELSE LET others == OtherSeeds(sb)
           refund == sb.assets - sb.fee - SumGifts(others)
           rs == [build_seed(sb, sb.refund_lock, refund, include_lock_data)
                    EXCEPT !.memos = PreservedMemo(sb)]
       IN [invalidate_sigs(sb) EXCEPT
             !.seeds = IF refund > 0 THEN others \o <<rs>> ELSE others]
compute_refund(sb, include_lock_data) ==
  IF sb.refund_lock = None THEN sb
  ELSE LET others == OtherSeeds(sb)
           refund == sb.assets - sb.fee - SumGifts(others)
           rs == [build_seed(sb, sb.refund_lock, refund, include_lock_data)
                    EXCEPT !.memos = PreservedMemo(sb)]
       IN [invalidate_sigs(sb) EXCEPT
             !.seeds = IF refund > 0 THEN <<rs>> \o others ELSE others]

\* the pubkey hashes that have a signature on the spend
PresentSigs(sb) == {sb.sigs[i].pkh : i \in DOMAIN sb.sigs}

PkhPrims(c) == SelectSeq(c, LAMBDA p : p.t = "pkh")
HaxPrims(c) == SelectSeq(c, LAMBDA p : p.t = "hax")
brn(c) == \E i \in DOMAIN c : c[i].t = "brn"

\* SpendBuilder::missing_unlocks, the Pkh entry of one Pkh primitive
\* (num_sigs = 0: no entry)
MissingPkh_AllValid(sb, p) ==
  LET checked == PresentSigs(sb) \cap p.hashes
  IN IF Cardinality(checked) < p.m
     THEN [num_sigs |-> p.m - Cardinality(checked), sig_of |-> p.hashes]
     ELSE [num_sigs |-> 0, sig_of |-> {}]
MissingPkh(sb, p) ==
  LET checked == PresentSigs(sb) \cap p.hashes
  IN IF Cardinality(checked) < p.m
     THEN [num_sigs |-> p.m - Cardinality(checked),
           sig_of |-> (p.hashes \ checked) \cup (checked \ p.hashes)]
     ELSE [num_sigs |-> 0, sig_of |-> {}]

MissingHax(sb, h) ==
  LET current_hax == IF sb.variant = "witness" THEN sb.hax ELSE {}
      checked_hax == current_hax \cap h.hashes
  IN (h.hashes \ checked_hax) \cup (checked_hax \ h.hashes)

\* SpendBuilder::missing_unlocks is non-empty
HasMissingUnlocks(sb) ==
  \/ \E i \in DOMAIN sb.cond : sb.cond[i].t = "pkh" /\ MissingPkh(sb, sb.cond[i]).num_sigs > 0
  \/ \E i \in DOMAIN sb.cond : sb.cond[i].t = "hax" /\ MissingHax(sb, sb.cond[i]) # {}
  \/ brn(sb.cond)

\* SpendBuilder::missing_unlocks: the list it returns
RECURSIVE MissingPkhList(_, _)
MissingPkhList(sb, ps) ==
  IF ps = <<>> THEN <<>>
  ELSE LET e == MissingPkh(sb, Head(ps))
       IN (IF e.num_sigs > 0
           THEN <<[t |-> "Pkh", num_sigs |-> e.num_sigs, of |-> e.sig_of]>>
           ELSE <<>>) \o MissingPkhList(sb, Tail(ps))
RECURSIVE MissingHaxList(_, _)
MissingHaxList(sb, hs) ==
  IF hs = <<>> THEN <<>>
  ELSE (IF MissingHax(sb, Head(hs)) # {}
        THEN <<[t |-> "Hax", num_sigs |-> 0, of |-> MissingHax(sb, Head(hs))]>>
        ELSE <<>>) \o MissingHaxList(sb, Tail(hs))
missing_unlocks_NoBrn(sb) ==
  MissingPkhList(sb, PkhPrims(sb.cond)) \o MissingHaxList(sb, HaxPrims(sb.cond))
missing_unlocks(sb) ==
  MissingPkhList(sb, PkhPrims(sb.cond))
  \o MissingHaxList(sb, HaxPrims(sb.cond))
  \o (IF brn(sb.cond) THEN <<[t |-> "Brn", num_sigs |-> 0, of |-> {}]>> ELSE <<>>)

\* SpendBuilder::add_preimage: the digest it returns (None: no Hax primitive
\* lists it, or the spend is a legacy spend) and the spend after the call
add_preimage_result(sb, preimage) ==
  IF sb.variant = "witness"
     /\ \E i \in DOMAIN sb.cond : sb.cond[i].t = "hax" /\ PreimageHash(preimage) \in sb.cond[i].hashes
  THEN PreimageHash(preimage) ELSE None
SpendBuilder_add_preimage(sb, preimage) ==
  IF add_preimage_result(sb, preimage) # None
  THEN [sb EXCEPT !.hax = @ \cup {PreimageHash(preimage)}]
  ELSE sb

RECURSIVE SumMissingSigs(_, _)
SumMissingSigs(sb, ps) ==
  IF ps = <<>> THEN 0 ELSE MissingPkh(sb, Head(ps)).num_sigs + SumMissingSigs(sb, Tail(ps))

\* words of the witness noun: lock merkle proof (spend condition, axis,
\* root, empty path), the z-map of signatures keyed by pubkey hash, the
\* z-map of preimages (atoms), the unit tim slot
WitnessWords(sb) ==
  (CondWords(sb.cond) + 1 + DigestWords + 1)
  + TreeWords(Cardinality(PresentSigs(sb)), (SigEntryWords - 1) * Cardinality(PresentSigs(sb)))
  + TreeWords(Cardinality(sb.hax), (DigestWords + 1) * Cardinality(sb.hax))
  + 1

\* Spend::unclamped_fee
Spend_unclamped_fee(sb, per_word) == (SumSeedWords(sb.seeds) + WitnessWords(sb)) * per_word

\* SpendBuilder::unclamped_fee
unclamped_fee_NoMissing(sb, fee_per_word) == Spend_unclamped_fee(sb, fee_per_word)
unclamped_fee(sb, fee_per_word) ==
  Spend_unclamped_fee(sb, fee_per_word)
  + MissingSigWords * SumMissingSigs(sb, PkhPrims(sb.cond)) * fee_per_word

\* SpendBuilder::sign
SpendBuilder_sign(sb, key) ==
  IF \E i \in DOMAIN sb.cond : sb.cond[i].t = "pkh" /\ key \in sb.cond[i].hashes
  THEN [sb EXCEPT !.sigs = Append(sb.sigs, [pkh |-> key, over |-> sig_hash(sb)])]
  ELSE sb

\* ------------------------------------------------------------------ hashes
\* The tip5 digest of a noun is modelled by an injective mixing of the
\* fields that are hashed: a fixed, structure-blind order on the values.
HashModulus == 4194319
LockCode(lock) ==
  CASE lock = "r1" -> 1 [] lock = "rf" -> 2 [] lock = "r2" -> 3 [] OTHER -> 0
\* LockRoot::hash
LockTip(lock) == (LockCode(lock) * 977) % 1009
\* the noun hash of a seed (lock root, note data, gift, parent hash);
\* note data is hashed as the z-set of its entries, so a repeated memo
\* entry does not change it
SeedCode(sd) ==
  ((((LockCode(sd.lock) * 8192 + sd.gift) * 2 + (IF sd.data THEN 1 ELSE 0)) * 8
      + (IF sd.memos = <<>> THEN 0 ELSE 1)) * 8) + sd.parent
SeedTip(sd) == (SeedCode(sd) * 389) % HashModulus
\* the hash of (tip, tip)
SeedMor(sd) == (SeedTip(sd) * 211) % HashModulus

\* ------------------------------------------------------------------- z-set
\* a tree is <<>> or <<value, left, right>>
tip_eq(a, b) == SeedTip(a) = SeedTip(b)
gor_tip(a, b) == SeedTip(a) < SeedTip(b)
mor_tip(a, b) == SeedMor(a) < SeedMor(b)

\* ZSet::put
RECURSIVE put_NoRotate(_, _)
put_NoRotate(node, value) ==
  IF node = <<>> THEN <<value, <<>>, <<>>>>
  ELSE IF tip_eq(value, node[1]) THEN node
  ELSE IF gor_tip(value, node[1])
       THEN <<node[1], put_NoRotate(node[2], value), node[3]>>
       ELSE <<node[1], node[2], put_NoRotate(node[3], value)>>
RECURSIVE put(_, _)
put(node, value) ==
  IF node = <<>> THEN <<value, <<>>, <<>>>>
  ELSE IF tip_eq(value, node[1]) THEN node
  ELSE IF gor_tip(value, node[1])
       THEN LET new_left == put(node[2], value)
            IN IF ~mor_tip(node[1], new_left[1])
               THEN <<new_left[1], new_left[2], <<node[1], new_left[3], node[3]>>>>
               ELSE <<node[1], new_left, node[3]>>
       ELSE LET new_right == put(node[3], value)
            IN IF ~mor_tip(node[1], new_right[1])
               THEN <<new_right[1], <<node[1], node[2], new_right[2]>>, new_right[3]>>
               ELSE <<node[1], node[2], new_right>>

\* ZSet::from_iter
RECURSIVE ZSet_from_iter(_, _)
ZSet_from_iter(tree, items) ==
  IF items = <<>> THEN tree ELSE ZSet_from_iter(put(tree, Head(items)), Tail(items))

\* ZSetIntoIterator: a stack; next() pops a node, pushes its left child,
\* then its right child, and yields the popped value
RECURSIVE ZSetIntoIterator(_)
ZSetIntoIterator(stack) ==
  IF stack = <<>> THEN <<>>
  ELSE LET cur == stack[Len(stack)]
           rest == SubSeq(stack, 1, Len(stack) - 1)
           s1 == IF cur[2] # <<>> THEN Append(rest, cur[2]) ELSE rest
           s2 == IF cur[3] # <<>> THEN Append(s1, cur[3]) ELSE s1
       IN <<cur[1]>> \o ZSetIntoIterator(s2)
into_iter(tree) == ZSetIntoIterator(IF tree = <<>> THEN <<>> ELSE <<tree>>)

\* the payloads of the noun ZSet::to_noun / ZMap::to_noun builds, read left
\* to right: a node is (payload, (left, right))
RECURSIVE to_noun_order(_)
to_noun_order(tree) ==
  IF tree = <<>> THEN <<>>
  ELSE <<tree[1]>> \o to_noun_order(tree[2]) \o to_noun_order(tree[3])

\* ------------------------------------------------------------------- z-map
\* the digest of a key (a note name) and of (digest, digest)
NameTip(n) == (n * 613) % 1009
NameMor(n) == (NameTip(n) * 211) % 1009

\* ZMap::put; an entry is [key, value], a tree is <<>> or <<entry, left, right>>
RECURSIVE ZMap_put_Replace(_, _)
ZMap_put_Replace(node, e) ==
  IF node = <<>> THEN <<e, <<>>, <<>>>>
  ELSE IF NameTip(e.key) = NameTip(node[1].key) THEN <<e, node[2], node[3]>>
  ELSE IF NameTip(e.key) < NameTip(node[1].key)
       THEN LET new_left == ZMap_put_Replace(node[2], e)
            IN IF ~(NameMor(node[1].key) < NameMor(new_left[1].key))
               THEN <<new_left[1], new_left[2], <<node[1], new_left[3], node[3]>>>>
               ELSE <<node[1], new_left, node[3]>>
       ELSE LET new_right == ZMap_put_Replace(node[3], e)
            IN IF ~(NameMor(node[1].key) < NameMor(new_right[1].key))
               THEN <<new_right[1], <<node[1], node[2], new_right[2]>>, new_right[3]>>
               ELSE <<node[1], node[2], new_right>>
RECURSIVE ZMap_put(_, _)
ZMap_put(node, e) ==
  IF node = <<>> THEN <<e, <<>>, <<>>>>
  ELSE IF NameTip(e.key) = NameTip(node[1].key) THEN node
  ELSE IF NameTip(e.key) < NameTip(node[1].key)
       THEN LET new_left == ZMap_put(node[2], e)
            IN IF ~(NameMor(node[1].key) < NameMor(new_left[1].key))
               THEN <<new_left[1], new_left[2], <<node[1], new_left[3], node[3]>>>>
               ELSE <<node[1], new_left, node[3]>>
       ELSE LET new_right == ZMap_put(node[3], e)
            IN IF ~(NameMor(node[1].key) < NameMor(new_right[1].key))
               THEN <<new_right[1], <<node[1], node[2], new_right[2]>>, new_right[3]>>
               ELSE <<node[1], node[2], new_right>>

\* ZMap::from_iter
RECURSIVE ZMap_from_iter(_, _)
ZMap_from_iter(tree, items) ==
  IF items = <<>> THEN tree ELSE ZMap_from_iter(ZMap_put(tree, Head(items)), Tail(items))

\* ZMapIntoIterator: as ZSetIntoIterator, yielding (key, value)
RECURSIVE ZMapIntoIterator(_)
ZMapIntoIterator(stack) ==
  IF stack = <<>> THEN <<>>
  ELSE LET cur == stack[Len(stack)]
           rest == SubSeq(stack, 1, Len(stack) - 1)
           s1 == IF cur[2] # <<>> THEN Append(rest, cur[2]) ELSE rest
           s2 == IF cur[3] # <<>> THEN Append(s1, cur[3]) ELSE s1
       IN <<cur[1]>> \o ZMapIntoIterator(s2)
ZMap_into_iter(tree) == ZMapIntoIterator(IF tree = <<>> THEN <<>> ELSE <<tree>>)

\* the `inserted` flag ZSet::put returns: false when it met an equal value
RECURSIVE put_inserted(_, _)
put_inserted(node, value) ==
  IF node = <<>> THEN TRUE
  ELSE IF tip_eq(value, node[1]) THEN FALSE
  ELSE IF gor_tip(value, node[1]) THEN put_inserted(node[2], value)
  ELSE put_inserted(node[3], value)

\* the `inserted` flag ZMap::put returns: false when it met the key
RECURSIVE ZMap_put_inserted(_, _)
ZMap_put_inserted(node, e) ==
  IF node = <<>> THEN TRUE
  ELSE IF NameTip(e.key) = NameTip(node[1].key) THEN FALSE
  ELSE IF NameTip(e.key) < NameTip(node[1].key) THEN ZMap_put_inserted(node[2], e)
  ELSE ZMap_put_inserted(node[3], e)

\* ZMap::get_inner / ZMap::get: <<>> is None, <<v>> is Some(v)
RECURSIVE get_inner_ByMor(_, _)
get_inner_ByMor(node, key) ==
  IF node = <<>> THEN <<>>
  ELSE IF NameTip(key) = NameTip(node[1].key) THEN <<node[1].value>>
  ELSE IF NameMor(key) < NameMor(node[1].key) THEN get_inner_ByMor(node[2], key)
  ELSE get_inner_ByMor(node[3], key)
RECURSIVE get_inner(_, _)
get_inner(node, key) ==
  IF node = <<>> THEN <<>>
  ELSE IF NameTip(key) = NameTip(node[1].key) THEN <<node[1].value>>
  ELSE IF NameTip(key) < NameTip(node[1].key) THEN get_inner(node[2], key)
  ELSE get_inner(node[3], key)

\* ZSet::new / ZMap::new; ret is what the last insert returned
ZNew(kind) == [kind |-> kind, tree |-> <<>>, items |-> <<>>, ret |-> "none"]

\* --------------------------------------------------------------- TxBuilder
\* the active spends in BTreeMap order (by name)
RECURSIVE SetToSortedSeq(_)
SetToSortedSeq(S) ==
  IF S = {} THEN <<>>
  ELSE LET m == CHOOSE x \in S : \A y \in S : x <= y
       IN <<m>> \o SetToSortedSeq(S \ {m})
SpendNames(sp) == SetToSortedSeq(DOMAIN sp)

\* BTreeMap::insert / remove
MapInsert(sp, sb) == [n \in (DOMAIN sp) \cup {sb.name} |-> IF n = sb.name THEN sb ELSE sp[n]]
MapRemove(sp, n) == [k \in (DOMAIN sp) \ {n} |-> sp[k]]
EmptyMap == [n \in {} |-> 0]

\* TxBuilder::cur_fee
RECURSIVE SumFees(_, _)
SumFees(sp, names) ==
  IF names = <<>> THEN 0 ELSE sp[Head(names)].fee + SumFees(sp, Tail(names))
cur_fee(sp) == SumFees(sp, SpendNames(sp))

\* TxBuilder::calc_fee
RECURSIVE SumUnclamped(_, _, _)
SumUnclamped(sp, names, fpw) ==
  IF names = <<>> THEN 0
  ELSE unclamped_fee(sp[Head(names)], fpw) + SumUnclamped(sp, Tail(names), fpw)
calc_fee(sp, fpw) == Max(SumUnclamped(sp, SpendNames(sp), fpw), MIN_FEE)

\* TxBuilder::spend
spend(sp, sb) == MapInsert(sp, sb)

\* fee_per_word of a builder made by from_tx: 1 << 15
FromTxFeePerWord == 32768

\* the loop of TxBuilder::from_tx over tx.spends; st = [sp, notes, res]
RECURSIVE from_tx_loop(_, _)
from_tx_loop(st, txspends) ==
  IF txspends = <<>> \/ st.res # "Ok" THEN st
  ELSE LET n == Head(txspends).name
           made == from_spend(Head(txspends).spend, n, NoteCond(n), None)
       IN IF n \notin st.notes THEN [st EXCEPT !.res = "NoteNotFound"]
          ELSE IF made = <<>>
          THEN [st EXCEPT !.res = "InvalidSpendCondition", !.notes = @ \ {n}]
          ELSE from_tx_loop([sp |-> MapInsert(st.sp, made[1]), notes |-> st.notes \ {n},
                             res |-> "Ok"], Tail(txspends))

\* TxBuilder::from_tx: the result and, when Ok, the spends of the new builder
from_tx(tx, notes) ==
  IF tx.version # "V1" THEN [sp |-> EmptyMap, res |-> "InvalidVersion"]
  ELSE LET r == from_tx_loop([sp |-> EmptyMap, notes |-> notes, res |-> "Ok"], tx.spends)
       IN [sp |-> r.sp, res |-> r.res]

\* one iteration of the loop of simple_spend_base over `notes`;
\* st = [sp, pool, rem, panic]
ssb_step_AllActive(st, n, recipient, refund_pkh, include_lock_data) ==
  LET gift_portion == Min(st.rem, NoteAssets(n))
      new == SpendBuilder_new(n, refund_pkh)
      withSeed == IF gift_portion > 0
                  THEN seed(new, build_seed(new, recipient, gift_portion, include_lock_data))
                  ELSE new
      sb == compute_refund(withSeed, include_lock_data)
  IN [sp |-> spend(st.sp, sb), pool |-> st.pool, rem |-> st.rem - gift_portion,
      panic |-> st.panic \/ RefundUnderflow(withSeed) \/ ~is_balanced(sb)]
ssb_step(st, n, recipient, refund_pkh, include_lock_data) ==
  LET gift_portion == Min(st.rem, NoteAssets(n))
      new == SpendBuilder_new(n, refund_pkh)
      withSeed == IF gift_portion > 0
                  THEN seed(new, build_seed(new, recipient, gift_portion, include_lock_data))
                  ELSE new
      sb == compute_refund(withSeed, include_lock_data)
  IN [sp |-> IF gift_portion > 0 THEN spend(st.sp, sb) ELSE st.sp,
      pool |-> IF gift_portion > 0 THEN st.pool ELSE Append(st.pool, sb),
      rem |-> st.rem - gift_portion,
      panic |-> st.panic \/ RefundUnderflow(withSeed) \/ ~is_balanced(sb)]

RECURSIVE ssb_loop(_, _, _, _, _)
ssb_loop(st, notes, recipient, refund_pkh, include_lock_data) ==
  IF notes = <<>> \/ st.panic THEN st
  ELSE ssb_loop(ssb_step(st, Head(notes), recipient, refund_pkh, include_lock_data),
                Tail(notes), recipient, refund_pkh, include_lock_data)

\* ---------------------------------------------------------- memo placement
\* every seed of every active spend, in spends order then seeds order
RECURSIVE SeedRefsOf(_, _)
SeedRefsOf(sb, i) ==
  IF i > Len(sb.seeds) THEN <<>>
  ELSE <<[name |-> sb.name, idx |-> i, seed |-> sb.seeds[i]]>> \o SeedRefsOf(sb, i + 1)
RECURSIVE AllSeedRefs(_, _)
AllSeedRefs(sp, names) ==
  IF names = <<>> THEN <<>>
  ELSE SeedRefsOf(sp[Head(names)], 1) \o AllSeedRefs(sp, Tail(names))

RECURSIVE LockTotal(_, _)
LockTotal(refs, lock) ==
  IF refs = <<>> THEN 0
  ELSE (IF Head(refs).seed.lock = lock THEN Head(refs).seed.gift ELSE 0)
       + LockTotal(Tail(refs), lock)

\* the locks of `totals` in BTreeMap order (by lock-root digest)
RECURSIVE LocksByTip(_)
LocksByTip(S) ==
  IF S = {} THEN <<>>
  ELSE LET m == CHOOSE x \in S : \A y \in S : LockTip(x) <= LockTip(y)
       IN <<m>> \o LocksByTip(S \ {m})

\* the loop choosing best_lock: the first lock, then any lock with a
\* strictly larger total
RECURSIVE BestLockLoop(_, _, _, _)
BestLockLoop(locks, refs, best_lock, best_total) ==
  IF locks = <<>> THEN best_lock
  ELSE LET total == LockTotal(refs, Head(locks))
       IN IF best_lock = None \/ total > best_total
          THEN BestLockLoop(Tail(locks), refs, Head(locks), total)
          ELSE BestLockLoop(Tail(locks), refs, best_lock, best_total)
BestLock(sp) ==
  LET refs == AllSeedRefs(sp, SpendNames(sp))
  IN BestLockLoop(LocksByTip({refs[i].seed.lock : i \in DOMAIN refs}), refs, None, 0)

\* NoteData::push_memo
push_memo(sd, memo) == [sd EXCEPT !.memos = Append(sd.memos, memo)]

seed_has_memo(sd) == sd.memos # <<>>

\* the seeds of the group with the memo pushed on candidate c only
Variant(group, c, memo) ==
  [i \in DOMAIN group |-> IF i = c THEN push_memo(group[i].seed, memo) ELSE group[i].seed]

\* candidate c ends last in the z-set's iteration order
LandsLast(group, c, memo) ==
  LET ordered == into_iter(ZSet_from_iter(<<>>, Variant(group, c, memo)))
  IN ordered # <<>> /\ seed_has_memo(ordered[Len(ordered)])

\* the loop over the candidates: the last one that lands last is chosen (0: none)
RECURSIVE ChosenLoop(_, _, _, _)
ChosenLoop(group, c, memo, chosen) ==
  IF c > Len(group) THEN chosen
  ELSE ChosenLoop(group, c + 1, memo, IF LandsLast(group, c, memo) THEN c ELSE chosen)

\* TxBuilder::apply_memo_to_last_seed_of_best_lock
apply_memo_to_last_seed_of_best_lock(sp, memo) ==
  LET best == BestLock(sp)
      group == SelectSeq(AllSeedRefs(sp, SpendNames(sp)), LAMBDA r : r.seed.lock = best)
      chosen == ChosenLoop(group, 1, memo, 0)
  IN IF best = None \/ group = <<>> \/ chosen = 0 THEN sp
     ELSE [sp EXCEPT ![group[chosen].name].seeds[group[chosen].idx] = push_memo(@, memo)]

\* ----------------------------------------------------------------- outputs
\* the spends of the transaction as RawTx::outputs walks them: the z-map built
\* from the spends vector, iterated
SpendsInZMapOrder(sp) ==
  LET names == SpendNames(sp)
      tree == ZMap_from_iter(<<>>, [i \in DOMAIN names |-> [key |-> names[i], value |-> 0]])
      walk == ZMap_into_iter(tree)
  IN [i \in DOMAIN walk |-> walk[i].key]

\* seeds_by_lock[lock]: the z-set of the seeds with that lock root, inserted
\* spend by spend, seed by seed
SeedsByLock(sp, lock) ==
  LET refs == AllSeedRefs(sp, SpendsInZMapOrder(sp))
      mine == SelectSeq(refs, LAMBDA r : r.seed.lock = lock)
  IN ZSet_from_iter(<<>>, [i \in DOMAIN mine |-> mine[i].seed])

\* the note RawTx::outputs makes for one lock root
OutputNote(sp, lock) ==
  LET seeds == into_iter(SeedsByLock(sp, lock))
  IN [lock |-> lock, assets |-> SumGifts(seeds), data |-> seeds[Len(seeds)].data,
      memos |-> seeds[Len(seeds)].memos]

\* RawTx::outputs of the transaction build() makes of the active spends
outputs(sp) ==
  LET refs == AllSeedRefs(sp, SpendNames(sp))
      locks == LocksByTip({refs[i].seed.lock : i \in DOMAIN refs})
  IN [i \in DOMAIN locks |-> OutputNote(sp, locks[i])]

\* ------------------------------------------------------------ fee balancing
\* note.assets - (gift of the refund seed), the sort key of both branches
nra(sb) == sb.assets - RefundGift(sb)
\* the subtraction in the sort closures goes below zero
SortUnderflow(sp) ==
  Cardinality(DOMAIN sp) >= 2 /\ \E n \in DOMAIN sp : RefundGift(sp[n]) > sp[n].assets

\* a precedes b in the sort of the fee-raising branch
RaiseBefore(a, b) ==
  IF nra(a) # nra(b) THEN nra(a) > nra(b)
  ELSE IF b.fee # a.fee THEN a.fee > b.fee
  ELSE a.name > b.name

\* `only refund`: the spend's single seed is its refund seed
only_refund(sb) == Len(sb.seeds) = 1 /\ HasRefund(sb)

\* a precedes b in the sort of the fee-lowering branch
LowerBefore(a, b) ==
  IF only_refund(a) # only_refund(b) THEN only_refund(a)
  ELSE IF a.fee # b.fee THEN a.fee < b.fee
  ELSE IF nra(a) # nra(b) THEN nra(a) < nra(b)
  ELSE a.name > b.name

\* the names of the active spends sorted by a total order
RECURSIVE SortedNames(_, _, _)
SortedNames(sp, S, raise) ==
  IF S = {} THEN <<>>
  ELSE LET m == CHOOSE x \in S : \A y \in S \ {x} :
                  IF raise THEN RaiseBefore(sp[x], sp[y]) ELSE LowerBefore(sp[x], sp[y])
       IN <<m>> \o SortedNames(sp, S \ {m}, raise)

\* fee_pool.sort_by_key(|v| v.note.assets): stable insertion
RECURSIVE InsertByAssets(_, _)
InsertByAssets(sorted, sb) ==
  IF sorted = <<>> THEN <<sb>>
  ELSE IF sorted[Len(sorted)].assets <= sb.assets THEN Append(sorted, sb)
  ELSE Append(InsertByAssets(SubSeq(sorted, 1, Len(sorted) - 1), sb), sorted[Len(sorted)])
RECURSIVE SortPool(_, _)
SortPool(sorted, pool) ==
  IF pool = <<>> THEN sorted ELSE SortPool(InsertByAssets(sorted, Head(pool)), Tail(pool))

\* the first loop of the fee-raising branch: take the fee from the refunds of
\* the active spends.  st = [sp, left, panic]
RaiseStep_KeepRefund(st, n, adjust_fee, include_lock_data, fpw) ==
  LET s == st.sp[n]
      sub_refund == Min(cur_refund(s).gift, st.left)
      s1 == fee(s, s.fee + sub_refund)
  IN IF ~HasRefund(s) THEN st
     ELSE IF sub_refund > 0
     THEN [sp |-> [st.sp EXCEPT ![n] = s1], left |-> st.left - sub_refund, panic |-> FALSE]
     ELSE st
RaiseStep(st, n, adjust_fee, include_lock_data, fpw) ==
  LET s == st.sp[n]
      words == NoteDataWords(cur_refund(s).data, cur_refund(s).memos)
      sub_refund == Min(cur_refund(s).gift, st.left)
      s1 == fee(s, s.fee + sub_refund)
      s2 == compute_refund(s1, include_lock_data)
      left1 == st.left - sub_refund
      left2 == IF adjust_fee /\ ~HasRefund(s2) THEN left1 - Min(left1, words * fpw) ELSE left1
  IN IF ~HasRefund(s) THEN st
     ELSE IF sub_refund > 0
     THEN IF RefundUnderflow(s1) THEN [st EXCEPT !.panic = TRUE]
          ELSE [sp |-> [st.sp EXCEPT ![n] = s2], left |-> left2, panic |-> FALSE]
     ELSE st

RaiseLoop_Skip(st, order, adjust_fee, include_lock_data, fpw) == st
RECURSIVE RaiseLoop(_, _, _, _, _)
RaiseLoop(st, order, adjust_fee, include_lock_data, fpw) ==
  IF order = <<>> \/ st.panic THEN st
  ELSE RaiseLoop(RaiseStep(st, Head(order), adjust_fee, include_lock_data, fpw),
                 Tail(order), adjust_fee, include_lock_data, fpw)

\* the second loop: pop fee-pool entries while fee is left to cover.
\* st = [sp, pool, left, panic]
PoolStep(st, adjust_fee, include_lock_data, fpw) ==
  LET r0 == st.pool[Len(st.pool)]
      rest == SubSeq(st.pool, 1, Len(st.pool) - 1)
      r == compute_refund(r0, include_lock_data)
      left1 == IF adjust_fee THEN st.left + unclamped_fee(r, fpw) ELSE st.left
      sub_refund == Min(cur_refund(r).gift, left1)
      r2 == IF sub_refund > 0
            THEN compute_refund(fee(r, r.fee + sub_refund), include_lock_data)
            ELSE r
  IN IF RefundUnderflow(r0) \/ ~HasRefund(r) THEN [st EXCEPT !.panic = TRUE]
     ELSE [sp |-> spend(st.sp, r2), pool |-> rest, left |-> left1 - sub_refund,
           panic |-> FALSE]

RECURSIVE PoolLoop(_, _, _, _)
PoolLoop(st, adjust_fee, include_lock_data, fpw) ==
  IF st.left = 0 \/ st.pool = <<>> \/ st.panic THEN st
  ELSE PoolLoop(PoolStep(st, adjust_fee, include_lock_data, fpw),
                adjust_fee, include_lock_data, fpw)

\* the loop of the fee-lowering branch.  st = [sp, left, ret, panic]
LowerStep_Skip(st, n, include_lock_data, fpw) == st
LowerStep(st, n, include_lock_data, fpw) ==
  LET s == st.sp[n]
      add_refund == Min(s.fee, st.left)
      s1 == IF add_refund > 0 THEN fee(s, s.fee - add_refund) ELSE s
      s2 == IF add_refund > 0 THEN compute_refund(s1, include_lock_data) ELSE s
      left1 == st.left - add_refund
      back == s2.fee = add_refund
  IN IF s.refund_lock = None THEN st
     ELSE IF add_refund > 0 /\ RefundUnderflow(s1) THEN [st EXCEPT !.panic = TRUE]
     ELSE [sp |-> [st.sp EXCEPT ![n] = s2],
           left |-> IF back THEN Max(0, left1 - unclamped_fee(s2, fpw)) ELSE left1,
           ret |-> IF back THEN Append(st.ret, n) ELSE st.ret,
           panic |-> FALSE]

RECURSIVE LowerLoop(_, _, _, _)
LowerLoop(st, order, include_lock_data, fpw) ==
  IF order = <<>> \/ st.panic THEN st
  ELSE LowerLoop(LowerStep(st, Head(order), include_lock_data, fpw),
                 Tail(order), include_lock_data, fpw)

\* move the scheduled spends from `spends` to `fee_pool`
RECURSIVE ReturnToPool(_, _, _)
ReturnToPool(sp, pool, ret) ==
  IF ret = <<>> THEN [sp |-> sp, pool |-> pool]
  ELSE ReturnToPool(MapRemove(sp, Head(ret)), Append(pool, sp[Head(ret)]), Tail(ret))

\* TxBuilder::set_fee_and_balance_refund: the builder after the call and the
\* result.  b = [sp, pool]
set_fee_and_balance_refund(b, fee_arg, adjust_fee, include_lock_data, fpw) ==
  LET cur == cur_fee(b.sp)
  IN IF cur = fee_arg THEN [sp |-> b.sp, pool |-> b.pool, res |-> "Ok"]
     ELSE IF SortUnderflow(b.sp) THEN [sp |-> b.sp, pool |-> b.pool, res |-> "panic"]
     ELSE IF cur < fee_arg
     THEN LET r1 == RaiseLoop([sp |-> b.sp, left |-> fee_arg - cur, panic |-> FALSE],
                              SortedNames(b.sp, DOMAIN b.sp, TRUE),
                              adjust_fee, include_lock_data, fpw)
              r2 == PoolLoop([sp |-> r1.sp, pool |-> SortPool(<<>>, b.pool),
                              left |-> r1.left, panic |-> FALSE],
                             adjust_fee, include_lock_data, fpw)
          IN IF r1.panic \/ r2.panic THEN [sp |-> b.sp, pool |-> b.pool, res |-> "panic"]
             ELSE [sp |-> r2.sp, pool |-> r2.pool,
                   res |-> IF r2.left > 0 THEN "InsufficientFunds" ELSE "Ok"]
     ELSE LET r1 == LowerLoop([sp |-> b.sp, left |-> cur - fee_arg, ret |-> <<>>,
                               panic |-> FALSE],
                              SortedNames(b.sp, DOMAIN b.sp, FALSE), include_lock_data, fpw)
              r2 == ReturnToPool(r1.sp, b.pool, r1.ret)
          IN IF r1.panic THEN [sp |-> b.sp, pool |-> b.pool, res |-> "panic"]
             ELSE [sp |-> r2.sp, pool |-> r2.pool,
                   res |-> IF r1.left > 0 THEN "AccountingMismatch" ELSE "Ok"]

\* TxBuilder::recalc_and_set_fee
recalc_and_set_fee(b, include_lock_data, fpw) ==
  set_fee_and_balance_refund(b, calc_fee(b.sp, fpw), TRUE, include_lock_data, fpw)

\* TxBuilder::simple_spend_base (with the memo argument)
simple_spend_base_NoZeroGift(b, notes, recipient, gift, refund_pkh, include_lock_data, memo) ==
  LET r == ssb_loop([sp |-> b.sp, pool |-> b.pool, rem |-> gift, panic |-> FALSE],
                    notes, recipient, refund_pkh, include_lock_data)
  IN IF r.panic THEN [sp |-> b.sp, pool |-> b.pool, res |-> "panic"]
     ELSE IF r.rem > 0 THEN [sp |-> r.sp, pool |-> r.pool, res |-> "InsufficientFunds"]
     ELSE [sp |-> IF memo # 0 THEN apply_memo_to_last_seed_of_best_lock(r.sp, memo) ELSE r.sp,
           pool |-> r.pool, res |-> "Ok"]
simple_spend_base(b, notes, recipient, gift, refund_pkh, include_lock_data, memo) ==
  IF gift = 0 THEN [sp |-> b.sp, pool |-> b.pool, res |-> "ZeroGift"]
  ELSE LET r == ssb_loop([sp |-> b.sp, pool |-> b.pool, rem |-> gift, panic |-> FALSE],
                         notes, recipient, refund_pkh, include_lock_data)
       IN IF r.panic THEN [sp |-> b.sp, pool |-> b.pool, res |-> "panic"]
          ELSE IF r.rem > 0 THEN [sp |-> r.sp, pool |-> r.pool, res |-> "InsufficientFunds"]
          ELSE [sp |-> IF memo # 0 THEN apply_memo_to_last_seed_of_best_lock(r.sp, memo)
                       ELSE r.sp,
                pool |-> r.pool, res |-> "Ok"]

\* TxBuilder::simple_spend
simple_spend(b, notes, recipient, gift, refund_pkh, include_lock_data, memo, fpw) ==
  LET r == simple_spend_base(b, notes, recipient, gift, refund_pkh, include_lock_data, memo)
  IN IF r.res # "Ok" THEN r
     ELSE recalc_and_set_fee([sp |-> r.sp, pool |-> r.pool], include_lock_data, fpw)

\* TxBuilder::validate: the result
RECURSIVE FlatMissingUnlocks(_, _)
FlatMissingUnlocks(sp, names) ==
  IF names = <<>> THEN <<>>
  ELSE missing_unlocks(sp[Head(names)]) \o FlatMissingUnlocks(sp, Tail(names))
validate_UnlocksFirst(sp, fpw) ==
  IF cur_fee(sp) < calc_fee(sp, fpw) THEN "InvalidFee"
  ELSE IF FlatMissingUnlocks(sp, SpendNames(sp)) # <<>> THEN "MissingUnlocks"
  ELSE IF \E n \in DOMAIN sp : ~is_balanced(sp[n]) THEN "UnbalancedSpends"
  ELSE "Ok"
validate(sp, fpw) ==
  IF cur_fee(sp) < calc_fee(sp, fpw) THEN "InvalidFee"
  ELSE IF \E n \in DOMAIN sp : ~is_balanced(sp[n]) THEN "UnbalancedSpends"
  ELSE IF FlatMissingUnlocks(sp, SpendNames(sp)) # <<>> THEN "MissingUnlocks"
  ELSE "Ok"

\* TxBuilder::sign
sign(sp, key) == [n \in DOMAIN sp |-> SpendBuilder_sign(sp[n], key)]

\* TxBuilder::add_preimage
add_preimage(sp, preimage) == [n \in DOMAIN sp |-> SpendBuilder_add_preimage(sp[n], preimage)]

\* ------------------------------------------------------------ jam and cue
\* A noun is <<"a", bits>> (an atom, its bits least significant first, the
\* last one 1; <<>> is 0) or <<"c", head, tail>>.  A buffer is a sequence of
\* bits in Lsb0 order.
WordBits == 64
atom(bits) == <<"a", bits>>
Cell(head, tail) == <<"c", head, tail>>
IsAtom(x) == x[1] = "a"

RECURSIVE Pow2(_)
Pow2(k) == IF k = 0 THEN 1 ELSE 2 * Pow2(k - 1)
\* met0_u64_to_usize: the bit length of a machine integer
RECURSIVE met0_u64_to_usize(_)
met0_u64_to_usize(value) == IF value = 0 THEN 0 ELSE 1 + met0_u64_to_usize(value \div 2)
\* met0_atom: the bit length of an atom
met0_atom(x) == Len(x[2])
\* the k low bits of a machine integer, least significant first
LowBits(value, k) == [i \in 1..k |-> (value \div Pow2(i - 1)) % 2]
Zeros(k) == [i \in 1..k |-> 0]
\* the integer a bit slice spells (u64::from_le_bytes of the copied bits)
RECURSIVE BitsToNat(_)
BitsToNat(bits) == IF bits = <<>> THEN 0 ELSE Head(bits) + 2 * BitsToNat(Tail(bits))
\* UBig::from: leading zero bits do not count
RECURSIVE Normal(_)
Normal(bits) ==
  IF bits = <<>> \/ bits[Len(bits)] = 1 THEN bits ELSE Normal(SubSeq(bits, 1, Len(bits) - 1))

\* jam: mat_backref
mat_backref(buffer, backref) ==
  IF backref = 0 THEN buffer \o <<1, 1, 1>>
  ELSE LET backref_sz == met0_u64_to_usize(backref)
           backref_sz_sz == met0_u64_to_usize(backref_sz)
       IN buffer \o <<1, 1>> \o Zeros(backref_sz_sz) \o <<1>>
            \o LowBits(backref_sz, backref_sz_sz - 1) \o LowBits(backref, backref_sz)

\* jam: mat_atom
mat_atom(buffer, x) ==
  IF x[2] = <<>> THEN buffer \o <<0, 1>>
  ELSE LET atom_sz == met0_atom(x)
           atom_sz_sz == met0_u64_to_usize(atom_sz)
       IN buffer \o <<0>> \o Zeros(atom_sz_sz) \o <<1>>
            \o LowBits(atom_sz, atom_sz_sz - 1) \o x[2]

\* jam: find_backref, <<>> is None
find_backref(backrefs, target) ==
  LET hits == SelectSeq(backrefs, LAMBDA e : e[1][1] = target[1] /\ e[1] = target)
  IN IF hits = <<>> THEN <<>> ELSE <<hits[1][2]>>

\* jam: the loop over the stack; st = [stack, backrefs, buffer]
RECURSIVE jam_loop(_)
jam_loop(st) ==
  IF st.stack = <<>> THEN st.buffer
  ELSE LET current == st.stack[Len(st.stack)]
           rest == SubSeq(st.stack, 1, Len(st.stack) - 1)
           found == find_backref(st.backrefs, current)
       IN IF found # <<>>
          THEN jam_loop([st EXCEPT
                 !.stack = rest,
                 !.buffer = IF IsAtom(current) /\ ~(met0_u64_to_usize(found[1]) < met0_atom(current))
                            THEN mat_atom(st.buffer, current)
                            ELSE mat_backref(st.buffer, found[1])])
          ELSE LET backrefs == Append(st.backrefs, <<current, Len(st.buffer)>>)
               IN IF IsAtom(current)
                  THEN jam_loop([stack |-> rest, backrefs |-> backrefs,
                                 buffer |-> mat_atom(st.buffer, current)])
                  ELSE jam_loop([stack |-> rest \o <<current[3], current[2]>>,
                                 backrefs |-> backrefs,
                                 buffer |-> st.buffer \o <<1, 0>>])

\* BitVec::into_vec: the last byte is filled with zero bits
into_vec(buffer) == buffer \o Zeros((8 - (Len(buffer) % 8)) % 8)

\* jam
jam(noun) == into_vec(jam_loop([stack |-> <<noun>>, backrefs |-> <<>>, buffer |-> <<>>]))

\* cue: next_up_to_n_bits (the slice; the cursor moves by n in any case)
next_up_to_n_bits(cursor, slice, n) ==
  IF Len(slice) >= cursor + n THEN SubSeq(slice, cursor + 1, cursor + n)
  ELSE IF Len(slice) > cursor THEN SubSeq(slice, cursor + 1, Len(slice))
  ELSE <<>>

\* cue: rest_bits
rest_bits(cursor, slice) ==
  IF Len(slice) > cursor THEN SubSeq(slice, cursor + 1, Len(slice)) ELSE <<>>

\* BitSlice::first_one: the index of the first set bit, -1 for None
first_one(bits) ==
  IF \E i \in DOMAIN bits : bits[i] = 1
  THEN (CHOOSE i \in DOMAIN bits : bits[i] = 1 /\ \A j \in 1..(i - 1) : bits[j] = 0) - 1
  ELSE -1

\* cue: get_size; the result is [t, size, cursor] with t "Some", "None",
\* "panic" (a slice index out of range, or copy_from_bitslice between slices
\* of different lengths) or "overflow" (the shift 1 << 64: a panic where
\* overflow is checked)
get_size(cursor, buffer) ==
  LET bitsize == first_one(rest_bits(cursor, buffer))
      size_bits == next_up_to_n_bits(cursor + bitsize + 1, buffer, bitsize - 1)
  IN IF bitsize = -1 THEN [t |-> "None", size |-> 0, cursor |-> cursor]
     ELSE IF bitsize = 0 THEN [t |-> "Some", size |-> 0, cursor |-> cursor + 1]
     ELSE IF bitsize - 1 > WordBits \/ Len(size_bits) # bitsize - 1
     THEN [t |-> "panic", size |-> 0, cursor |-> cursor]
     ELSE IF bitsize - 1 = WordBits THEN [t |-> "overflow", size |-> 0, cursor |-> cursor]
     ELSE [t |-> "Some", size |-> BitsToNat(size_bits) + Pow2(bitsize - 1),
           cursor |-> cursor + bitsize + 1 + (bitsize - 1)]

\* cue: rub_backref; [t, val, cursor]
rub_backref(cursor, buffer) ==
  LET sz == get_size(cursor, buffer)
  IN IF sz.t # "Some" THEN [t |-> sz.t, val |-> 0, cursor |-> cursor]
     ELSE IF sz.size = 0 THEN [t |-> "Some", val |-> 0, cursor |-> sz.cursor]
     ELSE IF sz.size <= WordBits
     THEN IF sz.cursor + sz.size > Len(buffer)
          THEN [t |-> "panic", val |-> 0, cursor |-> cursor]
          ELSE [t |-> "Some",
                val |-> BitsToNat(SubSeq(buffer, sz.cursor + 1, sz.cursor + sz.size)),
                cursor |-> sz.cursor + sz.size]
     ELSE [t |-> "None", val |-> 0, cursor |-> cursor]

\* cue: rub_atom; [t, val, cursor]
rub_atom(cursor, buffer) ==
  LET sz == get_size(cursor, buffer)
      bits == next_up_to_n_bits(sz.cursor, buffer, sz.size)
      wordsize == (sz.size + 63) \div 64
  IN IF sz.t # "Some" THEN [t |-> sz.t, val |-> <<>>, cursor |-> cursor]
     ELSE IF sz.size = 0 THEN [t |-> "Some", val |-> <<>>, cursor |-> sz.cursor]
     ELSE IF sz.size < WordBits
     THEN [t |-> "Some", val |-> Normal(bits), cursor |-> sz.cursor + sz.size]
     ELSE IF Len(bits) # wordsize * 64
     THEN [t |-> "panic", val |-> <<>>, cursor |-> cursor]
     ELSE [t |-> "Some", val |-> Normal(bits), cursor |-> sz.cursor + sz.size]

\* cue: next_bit; past the end it is false and the cursor stays
next_bit(cursor, slice) ==
  IF Len(slice) > cursor THEN [bit |-> slice[cursor + 1], cursor |-> cursor + 1]
  ELSE [bit |-> 0, cursor |-> cursor]

\* the noun a destination pointer points at: a path of cell positions from
\* `result`
RECURSIVE GetAt(_, _)
GetAt(tree, path) == IF path = <<>> THEN tree ELSE GetAt(tree[Head(path)], Tail(path))
RECURSIVE SetAt(_, _, _)
SetAt(tree, path, x) ==
  IF path = <<>> THEN x
  ELSE [tree EXCEPT ![Head(path)] = SetAt(tree[Head(path)], Tail(path), x)]

\* BTreeMap::insert on backref_map
BackrefInsert(map, k, path) ==
  [x \in (DOMAIN map) \cup {k} |-> IF x = k THEN path ELSE map[x]]

\* cue_bitslice: the loop over cue_stack;
\* st = [cursor, stack, result, backref_map, t]
RECURSIVE cue_loop(_, _)
cue_loop(st, buffer) ==
  IF st.t # "Some" \/ st.stack = <<>> THEN st
  ELSE
    LET entry == st.stack[Len(st.stack)]
        rest == SubSeq(st.stack, 1, Len(st.stack) - 1)
    IN IF entry.t = "BackRef"
       THEN cue_loop([st EXCEPT !.stack = rest,
                                !.backref_map = BackrefInsert(@, entry.backref, entry.ptr)],
                     buffer)
       ELSE
         LET b1 == next_bit(st.cursor, buffer)
             b2 == next_bit(b1.cursor, buffer)
         IN IF b1.bit = 1
            THEN IF b2.bit = 1
                 THEN LET r == rub_backref(b2.cursor, buffer)
                      IN IF r.t # "Some" THEN [st EXCEPT !.t = r.t]
                         ELSE IF r.val \notin DOMAIN st.backref_map
                         THEN [st EXCEPT !.t = "None"]
                         ELSE cue_loop([st EXCEPT
                                !.stack = rest, !.cursor = r.cursor,
                                !.result = SetAt(@, entry.ptr,
                                                 GetAt(st.result, st.backref_map[r.val]))],
                                buffer)
                 ELSE IF b2.cursor < 2 THEN [st EXCEPT !.t = "overflow"]
                 ELSE cue_loop([st EXCEPT
                        !.cursor = b2.cursor,
                        !.result = SetAt(@, entry.ptr, Cell(atom(<<>>), atom(<<>>))),
                        !.backref_map = BackrefInsert(@, b2.cursor - 2, entry.ptr),
                        !.stack = rest \o <<[t |-> "BackRef", backref |-> b2.cursor - 2,
                                             ptr |-> entry.ptr],
                                            [t |-> "DestinationPointer", backref |-> 0,
                                             ptr |-> Append(entry.ptr, 3)],
                                            [t |-> "DestinationPointer", backref |-> 0,
                                             ptr |-> Append(entry.ptr, 2)]>>],
                        buffer)
            ELSE IF b1.cursor < 1 THEN [st EXCEPT !.t = "overflow"]
            ELSE LET r == rub_atom(b1.cursor, buffer)
                 IN IF r.t # "Some" THEN [st EXCEPT !.t = r.t]
                    ELSE cue_loop([st EXCEPT
                           !.stack = rest, !.cursor = r.cursor,
                           !.result = SetAt(@, entry.ptr, atom(r.val)),
                           !.backref_map = BackrefInsert(@, b1.cursor - 1, entry.ptr)],
                           buffer)

\* cue / cue_bitslice: [t, noun] with t "Some", "None", "panic" or "overflow"
cue(buffer) ==
  LET st == cue_loop([cursor |-> 0,
                      stack |-> <<[t |-> "DestinationPointer", backref |-> 0, ptr |-> <<>>]>>,
                      result |-> atom(<<>>), backref_map |-> <<>>, t |-> "Some"], buffer)
  IN [t |-> st.t, noun |-> IF st.t = "Some" THEN st.result ELSE atom(<<>>)]

\* ------------------------------------------------- keys and signatures
\* The points A_GEN generates form a cyclic group of prime order G_ORDER; a
\* point is written as its discrete logarithm to A_GEN, A_ID as 0.  G_ORDER
\* stands for the 255-bit order: a small prime, so that the residues 0 are
\* among the values a hash takes.
G_ORDER == 7
A_GEN == 1
A_ID == 0
ch_add(p, q) == (p + q) % G_ORDER
ch_neg(p) == (G_ORDER - p) % G_ORDER
ch_scal_big(n, p) == (n * p) % G_ORDER

\* trunc_g_order(hash_varlen(transcript)): the hash is a function of the
\* transcript and nothing else is known of it; h gives its value at one
\* transcript and at all others
chal(h, scalar, pubkey, m) ==
  IF <<scalar, pubkey, m>> = h.at THEN h.c ELSE h.other

\* PrivateKey::public_key
public_key(sk) == ch_scal_big(sk, A_GEN)

\* PrivateKey::sign_multi; nonce is nonce_for(m)
sign_multi(sk, m, shared_nonce, combined_pubkey, nonce, h) ==
  LET c == chal(h, ch_scal_big(shared_nonce, A_GEN), combined_pubkey, m)
  IN [c |-> c, s |-> (nonce + c * sk) % G_ORDER]

\* PrivateKey::sign
PrivateKey_sign(sk, m, nonce, h) == sign_multi(sk, m, nonce, public_key(sk), nonce, h)

\* PublicKey::verify
verify(pk, m, sig, h) ==
  IF sig.c = 0 \/ sig.c >= G_ORDER \/ sig.s = 0 \/ sig.s >= G_ORDER THEN FALSE
  ELSE LET sg == ch_scal_big(sig.s, A_GEN)
           c_pk == ch_scal_big(sig.c, pk)
           scalar == ch_add(sg, ch_neg(c_pk))
       IN chal(h, scalar, pk, m) = sig.c

\* Add for &PrivateKey
PrivateKey_add(a, b) == [t |-> "Ok", key |-> (a + b) % G_ORDER]

\* Sub for &PrivateKey: UBig subtraction panics when the result is negative
PrivateKey_sub(a, b) ==
  IF b > a THEN [t |-> "panic", key |-> 0] ELSE [t |-> "Ok", key |-> (a - b) % G_ORDER]

\* ------------------------------------------------------------------- state
VARIABLES
  spends,            \* TxBuilder.spends: note name -> SpendBuilder
  fee_pool,          \* TxBuilder.fee_pool
  fee_per_word,      \* TxBuilder.fee_per_word
  include_lock_data, \* the include_lock_data argument the session passes
  draft,             \* <<>> or <<a SpendBuilder owned by the caller>>
  last,              \* the last call, its arguments and its result
  count,             \* calls made so far, by kind
  aborted,           \* a call panicked
  failed,            \* a call returned an error or panicked
  handed_unbalanced, \* a SpendBuilder that was not balanced was handed to spend()
  zt                 \* a ZSet or ZMap under construction: its kind, tree, inserted items

vars == <<spends, fee_pool, fee_per_word, include_lock_data, draft, last, count, aborted,
          failed, handed_unbalanced, zt>>

NoArgs ==
  [notes |-> <<>>, recipient |-> None, gift |-> 0, memo |-> 0, fee |-> 0, adjust |-> FALSE,
   key |-> None, preimage |-> None, variant |-> None]

\* the record of a call; `pre` notes what held of the builder when it was made
Call(op, res, args) ==
  [op |-> op, res |-> res, args |-> args,
   pre |-> [empty |-> (spends = EmptyMap /\ fee_pool = <<>>),
            fee_exact |-> (cur_fee(spends) = calc_fee(spends, fee_per_word))]]

\* the notes the builder or the caller's SpendBuilder already holds
Held ==
  DOMAIN spends \cup {fee_pool[i].name : i \in DOMAIN fee_pool}
    \cup {draft[i].name : i \in DOMAIN draft}

\* the vectors of distinct notes, none of them held, of length at most k
RECURSIVE NoteSeqs(_, _)
NoteSeqs(S, k) ==
  IF k = 0 THEN {<<>>}
  ELSE {<<>>} \cup UNION {{<<n>> \o t : t \in NoteSeqs(S \ {n}, k - 1)} : n \in S}

TypeOK ==
  /\ DOMAIN spends \subseteq NoteNames \cup ExtraNotes
  /\ fee_per_word \in FeePerWords \cup {FromTxFeePerWord}
  /\ include_lock_data \in BOOLEAN
  /\ Len(draft) <= 1
  /\ aborted \in BOOLEAN
  /\ failed \in BOOLEAN
  /\ aborted => failed

Init ==
  /\ spends = EmptyMap
  /\ fee_pool = <<>>
  /\ fee_per_word \in FeePerWords
  /\ include_lock_data \in BOOLEAN
  /\ draft = <<>>
  /\ last = [op |-> "new", res |-> "Ok", args |-> NoArgs,
             pre |-> [empty |-> TRUE, fee_exact |-> FALSE]]
  /\ count = [calls |-> 0, ops |-> 0, seeds |-> 0]
  /\ aborted = FALSE
  /\ failed = FALSE
  /\ handed_unbalanced = FALSE
  /\ zt = ZNew("set")

\* a TxBuilder call returned r = [sp, pool, res]
Return(r, op, args) ==
  /\ spends' = r.sp
  /\ fee_pool' = r.pool
  /\ last' = Call(op, r.res, args)
  /\ aborted' = (r.res = "panic")
  /\ failed' = (failed \/ r.res # "Ok")
  /\ UNCHANGED <<fee_per_word, include_lock_data, zt>>

Builder == [sp |-> spends, pool |-> fee_pool]

SimpleSpendBase(notes, recipient, gift, memo) ==
  /\ ~aborted
  /\ count.calls < MaxCalls
  /\ Return(simple_spend_base(Builder, notes, recipient, gift, RefundPkh,
                              include_lock_data, memo),
            "simple_spend_base",
            [NoArgs EXCEPT !.notes = notes, !.recipient = recipient, !.gift = gift,
                           !.memo = memo])
  /\ count' = [count EXCEPT !.calls = @ + 1]
  /\ UNCHANGED <<draft, handed_unbalanced>>

SimpleSpend(notes, recipient, gift, memo) ==
  /\ ~aborted
  /\ count.calls < MaxCalls
  /\ Return(simple_spend(Builder, notes, recipient, gift, RefundPkh,
                         include_lock_data, memo, fee_per_word),
            "simple_spend",
            [NoArgs EXCEPT !.notes = notes, !.recipient = recipient, !.gift = gift,
                           !.memo = memo])
  /\ count' = [count EXCEPT !.calls = @ + 1]
  /\ UNCHANGED <<draft, handed_unbalanced>>

SetFeeAndBalanceRefund(fee_arg, adjust_fee) ==
  /\ ~aborted
  /\ count.calls < MaxCalls
  /\ Return(set_fee_and_balance_refund(Builder, fee_arg, adjust_fee, include_lock_data,
                                       fee_per_word),
            "set_fee_and_balance_refund",
            [NoArgs EXCEPT !.fee = fee_arg, !.adjust = adjust_fee])
  /\ count' = [count EXCEPT !.calls = @ + 1]
  /\ UNCHANGED <<draft, handed_unbalanced>>

RecalcAndSetFee ==
  /\ ~aborted
  /\ count.calls < MaxCalls
  /\ Return(recalc_and_set_fee(Builder, include_lock_data, fee_per_word),
            "recalc_and_set_fee", NoArgs)
  /\ count' = [count EXCEPT !.calls = @ + 1]
  /\ UNCHANGED <<draft, handed_unbalanced>>

Sign(key) ==
  /\ ~aborted
  /\ count.calls < MaxCalls
  /\ spends' = sign(spends, key)
  /\ last' = Call("sign", "Ok", [NoArgs EXCEPT !.key = key])
  /\ count' = [count EXCEPT !.calls = @ + 1]
  /\ UNCHANGED <<fee_pool, fee_per_word, include_lock_data, zt, draft, aborted, failed,
                 handed_unbalanced>>

Validate ==
  /\ ~aborted
  /\ count.calls < MaxCalls
  /\ last' = Call("validate", validate(spends, fee_per_word), NoArgs)
  /\ failed' = (failed \/ validate(spends, fee_per_word) # "Ok")
  /\ count' = [count EXCEPT !.calls = @ + 1]
  /\ UNCHANGED <<spends, fee_pool, fee_per_word, include_lock_data, zt, draft, aborted,
                 handed_unbalanced>>

\* the SpendBuilders a caller prepares for note n before handing them to
\* TxBuilder::spend: fresh; with a gift and its refund computed; with a gift
\* of the whole note and no refund lock; the same, signed
Prepared(n) ==
  LET gifted == seed(SpendBuilder_new(n, RefundPkh),
                     build_seed(SpendBuilder_new(n, RefundPkh), "r1", 300, FALSE))
      whole == seed(SpendBuilder_new(n, None),
                    build_seed(SpendBuilder_new(n, None), "r2", NoteAssets(n), FALSE))
  IN {SpendBuilder_new(n, None), compute_refund(gifted, FALSE), whole,
      SpendBuilder_sign(whole, "k1")}

\* TxBuilder::spend with a SpendBuilder built by the caller
TxSpend(sb) ==
  /\ ~aborted
  /\ count.calls < MaxCalls
  /\ spends' = spend(spends, sb)
  /\ handed_unbalanced' = (handed_unbalanced \/ ~is_balanced(sb))
  /\ last' = Call("spend", "Ok", [NoArgs EXCEPT !.notes = <<sb.name>>])
  /\ count' = [count EXCEPT !.calls = @ + 1]
  /\ UNCHANGED <<fee_pool, fee_per_word, include_lock_data, zt, draft, aborted, failed>>

Next ==
  \/ \E notes \in NoteSeqs(NoteNames \ Held, MaxNotes), gift \in Gifts, memo \in Memos :
       SimpleSpendBase(notes, "r1", gift, memo)
  \/ \E notes \in NoteSeqs(NoteNames \ Held, MaxNotes), gift \in Gifts :
       SimpleSpend(notes, "r1", gift, 0)
  \/ \E n \in NoteNames \ Held : \E sb \in Prepared(n) : TxSpend(sb)
  \/ \E fee_arg \in Fees, adjust_fee \in BOOLEAN : SetFeeAndBalanceRefund(fee_arg, adjust_fee)
  \/ RecalcAndSetFee
  \/ \E key \in Keys : Sign(key)
  \/ Validate

Spec == Init /\ [][Next]_vars

\* ------------------------------------------- spends that need unlocking
\* TxBuilder::add_preimage
TxAddPreimage(preimage) ==
  /\ ~aborted
  /\ count.calls < MaxCalls
  /\ spends' = add_preimage(spends, preimage)
  /\ last' = Call("add_preimage",
                  IF \E n \in DOMAIN spends : add_preimage_result(spends[n], preimage) # None
                  THEN "Some" ELSE "None",
                  [NoArgs EXCEPT !.preimage = preimage])
  /\ count' = [count EXCEPT !.calls = @ + 1]
  /\ UNCHANGED <<fee_pool, fee_per_word, include_lock_data, zt, draft, aborted, failed,
                 handed_unbalanced>>

\* the notes whose locks need several signatures, preimages, or burn
UnlockNotes == {3, HaxNote, BrnNote}
UnlockFee == 300

\* the SpendBuilders a caller prepares for such a note: a fee and no seed;
\* the whole note less the fee as one gift; the same with every signature
\* and the first preimage; a gift with its refund
PreparedUnlock(n) ==
  LET new == SpendBuilder_new(n, None)
      feeOnly == fee(new, UnlockFee)
      paid == fee(seed(new, build_seed(new, "r2", NoteAssets(n) - UnlockFee, FALSE)), UnlockFee)
      ready == SpendBuilder_add_preimage(
                 SpendBuilder_sign(SpendBuilder_sign(paid, "k1"), "k2"), "p1")
      withRefund == SpendBuilder_new(n, RefundPkh)
      gifted == compute_refund(seed(withRefund, build_seed(withRefund, "r1", 300, FALSE)), FALSE)
  IN {feeOnly, paid, ready, gifted}

NextUnlock ==
  \/ \E n \in UnlockNotes \ Held : \E sb \in PreparedUnlock(n) : TxSpend(sb)
  \/ \E key \in Keys : Sign(key)
  \/ \E preimage \in Preimages : TxAddPreimage(preimage)
  \/ \E adjust_fee \in BOOLEAN : SetFeeAndBalanceRefund(UnlockFee, adjust_fee)
  \/ RecalcAndSetFee
  \/ Validate

SpecUnlock == Init /\ [][NextUnlock]_vars

\* --------------------------------------- note versions and spend variants
VersionNotes == {1, LegacyNote, LaterNote}
Variants == {"legacy", "witness"}
Versions == {"V0", "V1", "V2"}
\* the spends a caller may hand over for note n
SpendValues(n) ==
  {SpendValue(v, c, f) : v \in Variants, c \in {NoteCond(n), NoteCond(2)}, f \in {0, UnlockFee}}

\* SpendBuilder::new, kept by the caller
VNew(n, refund_lock) ==
  /\ ~aborted
  /\ count.calls < MaxCalls
  /\ draft' = <<SpendBuilder_new(n, refund_lock)>>
  /\ last' = Call("SpendBuilder::new", "Some", [NoArgs EXCEPT !.notes = <<n>>])
  /\ count' = [count EXCEPT !.calls = @ + 1]
  /\ UNCHANGED <<spends, fee_pool, fee_per_word, include_lock_data, zt, aborted, failed,
                 handed_unbalanced>>

\* SpendBuilder::from_spend, the result kept by the caller
FromSpend(sp, n, spend_condition, refund_lock) ==
  /\ ~aborted
  /\ count.calls < MaxCalls
  /\ draft' = from_spend(sp, n, spend_condition, refund_lock)
  /\ last' = Call("from_spend",
                  IF from_spend(sp, n, spend_condition, refund_lock) = <<>> THEN "None"
                  ELSE "Some",
                  [NoArgs EXCEPT !.notes = <<n>>, !.variant = sp.variant])
  /\ count' = [count EXCEPT !.calls = @ + 1]
  /\ UNCHANGED <<spends, fee_pool, fee_per_word, include_lock_data, zt, aborted, failed,
                 handed_unbalanced>>

\* TxBuilder::from_tx: on Ok the builder is the one it returns
FromTx(tx, notes) ==
  /\ ~aborted
  /\ count.calls < MaxCalls
  /\ LET r == from_tx(tx, notes)
     IN /\ last' = Call("from_tx", r.res, NoArgs)
        /\ failed' = (failed \/ r.res # "Ok")
        /\ IF r.res = "Ok"
           THEN /\ spends' = r.sp
                /\ fee_pool' = <<>>
                /\ fee_per_word' = FromTxFeePerWord
           ELSE UNCHANGED <<spends, fee_pool, fee_per_word>>
  /\ count' = [count EXCEPT !.calls = @ + 1]
  /\ UNCHANGED <<include_lock_data, zt, draft, aborted, handed_unbalanced>>

\* the (name, spend) lists of a RawTx over the notes of S, at most k long
RECURSIVE TxSpendSeqs(_, _)
TxSpendSeqs(S, k) ==
  IF k = 0 THEN {<<>>}
  ELSE {<<>>} \cup UNION {{<<[name |-> x[1], spend |-> SpendValue(x[2], NoteCond(x[1]), 0)]>> \o t :
                              t \in TxSpendSeqs(S \ {x[1]}, k - 1)} : x \in S \X Variants}

NextVersion ==
  \/ \E n \in VersionNotes, refund_lock \in {None, RefundPkh} : VNew(n, refund_lock)
  \/ \E n \in VersionNotes : \E sp \in SpendValues(n) :
       \E spend_condition \in {NoteCond(n), NoteCond(2)}, refund_lock \in {None, RefundPkh} :
         FromSpend(sp, n, spend_condition, refund_lock)
  \/ \E version \in Versions, txspends \in TxSpendSeqs(VersionNotes, MaxNotes),
        notes \in SUBSET VersionNotes :
       FromTx([version |-> version, spends |-> txspends], notes)

SpecVersion == Init /\ [][NextVersion]_vars

\* ------------------------------------------------ memos and output notes
MemoGifts == {300, 1300}
MemoFees == {252, 2000}

\* the SpendBuilders a caller prepares by hand: a gift and its refund; the
\* same gift seed pushed twice and the refund
PreparedOutputs(n) ==
  LET fresh == SpendBuilder_new(n, RefundPkh)
      gifted == seed(fresh, build_seed(fresh, "r1", 300, FALSE))
      twice == seed(gifted, build_seed(fresh, "r1", 300, FALSE))
  IN {compute_refund(gifted, FALSE), compute_refund(twice, FALSE)}

NextMemo ==
  \/ \E notes \in NoteSeqs(NoteNames \ Held, MaxNotes), recipient \in Recipients,
        gift \in MemoGifts :
       SimpleSpendBase(notes, recipient, gift, MemoAtom)
  \/ \E n \in NoteNames \ Held : \E sb \in PreparedOutputs(n) : TxSpend(sb)
  \/ \E fee_arg \in MemoFees, adjust_fee \in BOOLEAN :
       SetFeeAndBalanceRefund(fee_arg, adjust_fee)
  \/ RecalcAndSetFee

SpecMemo == Init /\ [][NextMemo]_vars

\* simple_spend_base alone, over a wider range of arguments
NextSimple ==
  \E notes \in NoteSeqs(NoteNames \ Held, MaxSimpleNotes), recipient \in Recipients,
     gift \in WideGifts, memo \in Memos :
    SimpleSpendBase(notes, recipient, gift, memo)

SpecSimple == Init /\ [][NextSimple]_vars

\* ------------------------------------------- a SpendBuilder built by hand
DraftCall(op, res) == Call(op, res, NoArgs)

SbNew(n, refund_lock) ==
  /\ ~aborted
  /\ draft = <<>>
  /\ count.ops = 0
  /\ draft' = <<SpendBuilder_new(n, refund_lock)>>
  /\ last' = DraftCall("SpendBuilder::new", "Ok")
  /\ UNCHANGED <<spends, fee_pool, fee_per_word, include_lock_data, zt, count, aborted, failed,
                 handed_unbalanced>>

SbSeed(lock, gift, data, memos) ==
  /\ ~aborted
  /\ draft # <<>>
  /\ count.seeds < MaxDraftSeeds
  /\ draft' = <<seed(draft[1], [build_seed(draft[1], lock, gift, data) EXCEPT !.memos = memos])>>
  /\ last' = DraftCall("seed", "Ok")
  /\ count' = [count EXCEPT !.seeds = @ + 1]
  /\ UNCHANGED <<spends, fee_pool, fee_per_word, include_lock_data, zt, aborted, failed,
                 handed_unbalanced>>

SbFee(fee_portion) ==
  /\ ~aborted
  /\ draft # <<>>
  /\ count.ops < MaxDraftOps
  /\ draft' = <<fee(draft[1], fee_portion)>>
  /\ last' = DraftCall("fee", "Ok")
  /\ count' = [count EXCEPT !.ops = @ + 1]
  /\ UNCHANGED <<spends, fee_pool, fee_per_word, include_lock_data, zt, aborted, failed,
                 handed_unbalanced>>

SbComputeRefund(ild) ==
  /\ ~aborted
  /\ draft # <<>>
  /\ count.ops < MaxDraftOps
  /\ IF RefundUnderflow(draft[1])
     THEN /\ aborted' = TRUE
          /\ last' = DraftCall("compute_refund", "panic")
          /\ UNCHANGED draft
     ELSE /\ draft' = <<compute_refund(draft[1], ild)>>
          /\ last' = DraftCall("compute_refund", "Ok")
          /\ UNCHANGED aborted
  /\ failed' = (failed \/ RefundUnderflow(draft[1]))
  /\ count' = [count EXCEPT !.ops = @ + 1]
  /\ UNCHANGED <<spends, fee_pool, fee_per_word, include_lock_data, zt, handed_unbalanced>>

SbSign(key) ==
  /\ ~aborted
  /\ draft # <<>>
  /\ count.ops < MaxDraftOps
  /\ draft' = <<SpendBuilder_sign(draft[1], key)>>
  /\ last' = DraftCall("SpendBuilder::sign", "Ok")
  /\ count' = [count EXCEPT !.ops = @ + 1]
  /\ UNCHANGED <<spends, fee_pool, fee_per_word, include_lock_data, zt, aborted, failed,
                 handed_unbalanced>>

NextDraft ==
  \/ \E n \in NoteNames, refund_lock \in {None, RefundPkh} : SbNew(n, refund_lock)
  \/ \E lock \in Recipients, gift \in DraftGifts, data \in BOOLEAN,
        memos \in {<<>>, <<MemoAtom>>} :
       SbSeed(lock, gift, data, memos)
  \/ \E fee_portion \in DraftFees : SbFee(fee_portion)
  \/ \E ild \in BOOLEAN : SbComputeRefund(ild)
  \/ \E key \in Keys : SbSign(key)

\* the TxBuilder is not used while the caller works on its own SpendBuilder
InitDraft == Init /\ fee_per_word = 1 /\ ~include_lock_data

SpecDraft == InitDraft /\ [][NextDraft]_vars

\* ------------------------------------------------- a z-set, a z-map alone
\* the seeds inserted into a ZSet<Seed>
ZItems ==
  {[lock |-> l, gift |-> g, data |-> FALSE, memos |-> m, parent |-> 1] :
     l \in {"r1", "rf"}, g \in DraftGifts, m \in {<<>>, <<MemoAtom>>}}
\* the entries inserted into a ZMap<Name, Nicks>
ZEntries == {[key |-> k, value |-> v] : k \in NoteNames \cup ExtraNotes, v \in {0, UnlockFee}}

\* ZSet::insert
ZSetInsert(v) ==
  /\ zt.kind = "set"
  /\ Len(zt.items) < MaxInserts
  /\ zt' = [zt EXCEPT !.tree = put(zt.tree, v), !.items = Append(@, v),
                      !.ret = IF put_inserted(zt.tree, v) THEN "true" ELSE "false"]
  /\ UNCHANGED <<spends, fee_pool, fee_per_word, include_lock_data, draft, last, count,
                 aborted, failed, handed_unbalanced>>

\* ZMap::insert
ZMapInsert(e) ==
  /\ zt.kind = "map"
  /\ Len(zt.items) < MaxInserts
  /\ zt' = [zt EXCEPT !.tree = ZMap_put(zt.tree, e), !.items = Append(@, e),
                      !.ret = IF ZMap_put_inserted(zt.tree, e) THEN "true" ELSE "false"]
  /\ UNCHANGED <<spends, fee_pool, fee_per_word, include_lock_data, draft, last, count,
                 aborted, failed, handed_unbalanced>>

NextZ ==
  \/ \E v \in ZItems : ZSetInsert(v)
  \/ \E e \in ZEntries : ZMapInsert(e)

InitZ ==
  /\ spends = EmptyMap
  /\ fee_pool = <<>>
  /\ fee_per_word = 1
  /\ include_lock_data = FALSE
  /\ draft = <<>>
  /\ last = [op |-> "new", res |-> "Ok", args |-> NoArgs,
             pre |-> [empty |-> TRUE, fee_exact |-> FALSE]]
  /\ count = [calls |-> 0, ops |-> 0, seeds |-> 0]
  /\ aborted = FALSE
  /\ failed = FALSE
  /\ handed_unbalanced = FALSE
  /\ zt \in {ZNew("set"), ZNew("map")}

SpecZ == InitZ /\ [][NextZ]_vars

\* ------------------------------------ a builder rebuilt from a transaction
\* the spend of note n in a RawTx: one gift of the whole note less the fee
TxSpendOf(n, fee_portion) ==
  [name |-> n,
   spend |-> [SpendValue("witness", NoteCond(n), fee_portion) EXCEPT
                !.seeds = <<build_seed(SpendBuilder_new(n, None), "r1",
                                       NoteAssets(n) - fee_portion, FALSE)>>]]

\* the (name, spend) lists over the notes of S, at most k long, with and
\* without a fee
RECURSIVE FeeTxSpendSeqs(_, _)
FeeTxSpendSeqs(S, k) ==
  IF k = 0 THEN {<<>>}
  ELSE {<<>>} \cup UNION {{<<TxSpendOf(x[1], x[2])>> \o t :
                              t \in FeeTxSpendSeqs(S \ {x[1]}, k - 1)}
                          : x \in S \X {0, UnlockFee}}

NextRebuild ==
  \/ /\ count.calls = 0
     /\ \E txspends \in FeeTxSpendSeqs(NoteNames, MaxNotes) :
          FromTx([version |-> "V1", spends |-> txspends], NoteNames)
  \/ \E notes \in NoteSeqs(NoteNames \ Held, MaxNotes) :
       SimpleSpendBase(notes, "r1", 745, 0)
  \/ \E fee_arg \in Fees, adjust_fee \in BOOLEAN : SetFeeAndBalanceRefund(fee_arg, adjust_fee)
  \/ RecalcAndSetFee

SpecRebuild == Init /\ [][NextRebuild]_vars

\* ------------------------------------------------- calls of jam and cue
\* One call of jam or cue per run; `last` records it.
MaxCells == 3

\* atoms: 0, 1, 2^63 (64 bits) and 2^64 (65 bits)
AtomBits == {<<>>, <<1>>, Zeros(63) \o <<1>>, Zeros(64) \o <<1>>}

\* the nouns over AtomBits with exactly k cells
RECURSIVE NounsOfCells(_)
NounsOfCells(k) ==
  IF k = 0 THEN {atom(b) : b \in AtomBits}
  ELSE UNION {{Cell(h, t) : h \in NounsOfCells(i), t \in NounsOfCells(k - 1 - i)}
              : i \in 0..(k - 1)}
Nouns == UNION {NounsOfCells(k) : k \in 0..MaxCells}

\* every string of one byte, as bits
OneByte == [1..8 -> {0, 1}]

PureCall(op, res, args) ==
  /\ count.calls = 0
  /\ last' = Call(op, res, args)
  /\ count' = [count EXCEPT !.calls = 1]
  /\ UNCHANGED <<spends, fee_pool, fee_per_word, include_lock_data, draft, aborted, failed,
                 handed_unbalanced, zt>>

\* cue(&jam(x))
CueOfJam(x) == PureCall("cue_jam", cue(jam(x)), [noun |-> x, bytes |-> jam(x)])

\* cue(bytes)
Cue(bytes) == PureCall("cue", cue(bytes), [noun |-> atom(<<>>), bytes |-> bytes])

\* cue of jam(x) without its last byte
CueTruncated(x) ==
  LET bytes == jam(x) IN Cue(SubSeq(bytes, 1, Len(bytes) - 8))

NextNoun ==
  \/ \E x \in Nouns : CueOfJam(x)
  \/ \E bytes \in OneByte : Cue(bytes)
  \/ \E x \in Nouns : CueTruncated(x)

SpecNoun == InitDraft /\ [][NextNoun]_vars

\* ------------------------------------------- calls on keys and signatures
MaxKey == 8
PrivateKeys == 0..MaxKey
Digests == {0, 1}
Residues == 0..(G_ORDER - 1)

\* sk.public_key().verify(m, sk.sign(m)); nonce and c are the values the
\* hash takes in nonce_for and in sign_multi
SignVerify(sk, m, nonce, c, other) ==
  LET h == [at |-> <<ch_scal_big(nonce, A_GEN), public_key(sk), m>>, c |-> c,
            other |-> other]
      sig == PrivateKey_sign(sk, m, nonce, h)
  IN PureCall("sign_verify", [ok |-> verify(public_key(sk), m, sig, h), sig |-> sig],
              [sk |-> sk, m |-> m])

\* &a + &b
KeyAdd(a, b) == PureCall("add", PrivateKey_add(a, b), [a |-> a, b |-> b])

\* &(&a - &b) + &b
KeySubAdd(a, b) ==
  LET d == PrivateKey_sub(a, b)
  IN PureCall("sub_add", IF d.t = "Ok" THEN PrivateKey_add(d.key, b) ELSE d,
              [a |-> a, b |-> b])

NextKeys ==
  \/ \E sk \in PrivateKeys, m \in Digests, nonce, c, other \in Residues :
       SignVerify(sk, m, nonce, c, other)
  \/ \E a, b \in PrivateKeys : KeyAdd(a, b)
  \/ \E a, b \in PrivateKeys : KeySubAdd(a, b)

SpecKeys == InitDraft /\ [][NextKeys]_vars

\* ================================================================== claims
FeeNow == cur_fee(spends)
FeeDue == calc_fee(spends, fee_per_word)
AllBalanced == \A n \in DOMAIN spends : is_balanced(spends[n])

\* C1 (as stated): after calls that all returned success, every SpendBuilder
\* held in `spends` is balanced
C1_BalancedAfterSuccess == ~failed => AllBalanced

\* C1 (amended): every SpendBuilder held in `spends` is balanced after calls
\* that all returned success, provided every SpendBuilder handed to
\* TxBuilder::spend was balanced when it was handed over
C1_BalancedUnlessHandedUnbalanced == (~failed /\ ~handed_unbalanced) => AllBalanced

C1_Witness ==
  /\ ~failed /\ ~handed_unbalanced
  /\ last.op = "set_fee_and_balance_refund" /\ last.res = "Ok"
  /\ Cardinality(DOMAIN spends) >= 2
  /\ FeeNow > 0
  /\ \E n \in DOMAIN spends : spends[n].fee > 0 /\ HasRefund(spends[n])

\* C2: every signature held on a spend of the builder was produced over that
\* spend's current sig_hash
C2_SignaturesCurrent ==
  \A n \in DOMAIN spends : \A i \in DOMAIN spends[n].sigs :
    spends[n].sigs[i].over = sig_hash(spends[n])

\* C3: when recalc_and_set_fee or simple_spend returns Ok, cur_fee >= calc_fee
C3_RecalcCoversFee ==
  (last.op \in {"recalc_and_set_fee", "simple_spend"} /\ last.res = "Ok") => FeeNow >= FeeDue

\* C4: a recalc_and_set_fee that follows a recalc_and_set_fee that returned Ok
\* leaves spends and fee_pool as they were
C4_RecalcIdempotent ==
  [][(last.op = "recalc_and_set_fee" /\ last.res = "Ok" /\ last'.op = "recalc_and_set_fee")
       => (spends' = spends /\ fee_pool' = fee_pool)]_vars

\* C5 (as stated): if cur_fee = calc_fee before TxBuilder::sign, it still
\* holds after
C5_SignKeepsFeeExact ==
  [][(last'.op = "sign" /\ FeeNow = FeeDue)
       => cur_fee(spends') = calc_fee(spends', fee_per_word)]_vars

\* the Pkh primitives of sb that list the key and still lack signatures
ShortPrimsListing(sb, key) ==
  {i \in DOMAIN sb.cond :
     sb.cond[i].t = "pkh" /\ key \in sb.cond[i].hashes /\ MissingPkh(sb, sb.cond[i]).num_sigs > 0}
\* a signature of the key on sb replaces exactly one estimated signature
OneShort(sb, key) ==
  (key \notin PresentSigs(sb) /\ \E i \in DOMAIN sb.cond : sb.cond[i].t = "pkh" /\ key \in sb.cond[i].hashes)
    => Cardinality(ShortPrimsListing(sb, key)) = 1

\* C5 (amended): if cur_fee = calc_fee before TxBuilder::sign(key), it still
\* holds after, provided that on every active spend whose lock lists the key
\* and that the key has not signed yet, exactly one Pkh primitive listing the
\* key is still short of signatures
C5_SignKeepsFeeWhenOneShort ==
  [][(/\ last'.op = "sign"
      /\ FeeNow = FeeDue
      /\ \A n \in DOMAIN spends : OneShort(spends[n], last'.args.key))
       => cur_fee(spends') = calc_fee(spends', fee_per_word)]_vars

C5_Witness ==
  /\ last.op = "sign" /\ last.pre.fee_exact
  /\ FeeNow = FeeDue /\ FeeDue > MIN_FEE
  /\ \A n \in DOMAIN spends : Len(spends[n].sigs) <= 1
  /\ \E n \in DOMAIN spends : PresentSigs(spends[n]) = {last.args.key}

\* C6: fee balancing moves a spend from spends to fee_pool only if the spend
\* carries no seed other than its refund seed
C6_OnlyRefundSpendsLeave ==
  [][\A n \in (DOMAIN spends) \ (DOMAIN spends') : OtherSeeds(spends[n]) = <<>>]_vars

\* C7: when set_fee_and_balance_refund(fee, adjust_fee = false) returns Ok,
\* cur_fee = fee
C7_SetFeeExact ==
  (last.op = "set_fee_and_balance_refund" /\ ~last.args.adjust /\ last.res = "Ok")
    => FeeNow = last.args.fee

\* ---------------------------------------------------------------- C8
\* the SpendBuilder the caller holds
Draft == draft[1]
\* the refund compute_refund owes: note.assets - fee - the other seeds' gifts
RefundOwed(sb) == sb.assets - sb.fee - SumGifts(OtherSeeds(sb))

\* C8: after compute_refund on a spend that has a refund_lock and whose fee
\* plus non-refund gifts do not exceed note.assets: at most one seed is locked
\* to the refund lock, it exists exactly when the refund owed is positive, it
\* carries exactly that amount, it is at seeds[0], and the spend is balanced
C8_ComputeRefundPost ==
  (/\ draft # <<>>
   /\ last.op = "compute_refund"
   /\ Draft.refund_lock # None
   /\ Draft.fee + SumGifts(OtherSeeds(Draft)) <= Draft.assets)
    => /\ last.res = "Ok"
       /\ Len(RefundSeeds(Draft)) <= 1
       /\ (RefundSeeds(Draft) # <<>>) <=> (RefundOwed(Draft) > 0)
       /\ RefundSeeds(Draft) # <<>> =>
            /\ Draft.seeds[1].lock = Draft.refund_lock
            /\ Draft.seeds[1].gift = RefundOwed(Draft)
       /\ is_balanced(Draft)

C8_Witness ==
  /\ draft # <<>>
  /\ last.op = "compute_refund" /\ last.res = "Ok"
  /\ Draft.refund_lock # None
  /\ Draft.fee > 0
  /\ Len(Draft.seeds) = 3
  /\ Len(RefundSeeds(Draft)) = 1
  /\ Len(OtherSeeds(Draft)) = 2

\* ---------------------------------------------------------- C9 and C10
\* the gifts of the seeds of sb locked to `lock`
GiftsTo(sb, lock) == SumGifts(SelectSeq(sb.seeds, LAMBDA v : v.lock = lock))

RECURSIVE SumAssets(_)
SumAssets(notes) == IF notes = <<>> THEN 0 ELSE NoteAssets(Head(notes)) + SumAssets(Tail(notes))

\* what the i-th note owes of `gift` when the notes before it are used up first
Portion(notes, i, gift) ==
  Min(Max(gift - SumAssets(SubSeq(notes, 1, i - 1)), 0), NoteAssets(notes[i]))

RECURSIVE SumGiftsTo(_, _, _)
SumGiftsTo(sp, names, lock) ==
  IF names = <<>> THEN 0 ELSE GiftsTo(sp[Head(names)], lock) + SumGiftsTo(sp, Tail(names), lock)

PoolNames == {fee_pool[i].name : i \in DOMAIN fee_pool}

\* C9: after simple_spend_base returns Ok on an empty builder with a recipient
\* other than the refund pkh: the recipient's gifts over the active spends sum
\* to gift, every note carries min(remaining gift, note.assets) in input
\* order, and every note reached after the gift is exhausted is in fee_pool
\* and not in spends
C9_GreedyFill ==
  (/\ last.op = "simple_spend_base" /\ last.res = "Ok"
   /\ last.pre.empty
   /\ last.args.recipient # RefundPkh)
    => LET notes == last.args.notes
           gift == last.args.gift
           to == last.args.recipient
       IN /\ SumGiftsTo(spends, SpendNames(spends), to) = gift
          /\ \A i \in DOMAIN notes :
               IF Portion(notes, i, gift) > 0
               THEN /\ notes[i] \in DOMAIN spends
                    /\ GiftsTo(spends[notes[i]], to) = Portion(notes, i, gift)
               ELSE /\ notes[i] \in PoolNames
                    /\ notes[i] \notin DOMAIN spends

C9_Witness ==
  /\ last.op = "simple_spend_base" /\ last.res = "Ok"
  /\ last.pre.empty
  /\ last.args.recipient # RefundPkh
  /\ Len(last.args.notes) = 3
  /\ Cardinality(DOMAIN spends) = 2
  /\ Len(fee_pool) = 1
  /\ \E n \in DOMAIN spends : HasRefund(spends[n])

\* C10: simple_spend_base returns ZeroGift exactly when gift = 0,
\* InsufficientFunds exactly when gift > 0 and the assets of the supplied
\* notes sum to less than gift, and Ok in every other case
C10_SimpleSpendBaseResult ==
  last.op = "simple_spend_base" =>
    LET gift == last.args.gift
        short == gift > 0 /\ SumAssets(last.args.notes) < gift
    IN /\ (last.res = "ZeroGift") <=> (gift = 0)
       /\ (last.res = "InsufficientFunds") <=> short
       /\ (gift # 0 /\ ~short) => last.res = "Ok"

C10_Witness ==
  /\ last.op = "simple_spend_base" /\ last.res = "InsufficientFunds"
  /\ Len(last.args.notes) = 2
  /\ ~last.pre.empty

\* ---------------------------------------------------------------- C11
\* the notes of a vector, as a set
NoteSet(notes) == {notes[i] : i \in DOMAIN notes}

\* the supplied notes of `sub` can cover the gift and the resulting fee:
\* simple_spend on them alone succeeds
CanCover(sub, a) ==
  simple_spend([sp |-> EmptyMap, pool |-> <<>>], sub, a.recipient, a.gift, RefundPkh,
               include_lock_data, a.memo, fee_per_word).res = "Ok"

RECURSIVE CoverLen(_, _, _)
CoverLen(notes, i, gift) ==
  IF i >= Len(notes) \/ SumAssets(SubSeq(notes, 1, i)) >= gift THEN i
  ELSE CoverLen(notes, i + 1, gift)

Outstanding(sp) == \E n \in DOMAIN sp : HasMissingUnlocks(sp[n])

\* C12: validate returns InvalidFee when cur_fee < calc_fee; otherwise
\* UnbalancedSpends when some active spend is not balanced; otherwise
\* MissingUnlocks when some active spend has an outstanding requirement;
\* otherwise Ok; and it leaves the builder as it was
C12_ValidateResult ==
  [][last'.op = "validate" =>
       /\ spends' = spends /\ fee_pool' = fee_pool /\ fee_per_word' = fee_per_word
       /\ last'.res =
            IF FeeNow < FeeDue THEN "InvalidFee"
            ELSE IF ~AllBalanced THEN "UnbalancedSpends"
            ELSE IF Outstanding(spends) THEN "MissingUnlocks"
            ELSE "Ok"]_vars

C12_Witness ==
  /\ last.op = "validate" /\ last.res = "UnbalancedSpends"
  /\ FeeNow >= FeeDue
  /\ Outstanding(spends)

\* ---------------------------------------------------------------- C14
\* what the claim expects for the Pkh primitives ps of sb, in order
RECURSIVE ExpectedPkh(_, _)
ExpectedPkh(sb, ps) ==
  IF ps = <<>> THEN <<>>
  ELSE LET V == Head(ps).hashes
           P == PresentSigs(sb)
       IN (IF Cardinality(P \cap V) < Head(ps).m
           THEN <<[t |-> "Pkh", num_sigs |-> Head(ps).m - Cardinality(P \cap V), of |-> V \ P]>>
           ELSE <<>>) \o ExpectedPkh(sb, Tail(ps))

\* C14: for every Pkh primitive p of a spend's condition missing_unlocks
\* reports a Pkh entry exactly when |P \cap V| < p.m, with
\* num_sigs = p.m - |P \cap V| and sig_of = V \ P
C14_MissingPkhEntries ==
  \A n \in DOMAIN spends :
    SelectSeq(missing_unlocks(spends[n]), LAMBDA e : e.t = "Pkh")
      = ExpectedPkh(spends[n], PkhPrims(spends[n].cond))

C14_Witness ==
  /\ HaxNote \in DOMAIN spends
  /\ PresentSigs(spends[HaxNote]) = {"k1"}
  /\ missing_unlocks(spends[HaxNote])[1] = [t |-> "Pkh", num_sigs |-> 1, of |-> {"k2"}]

\* ---------------------------------------------------------------- C15
HasBrn(sp) == \E n \in DOMAIN sp : \E i \in DOMAIN sp[n].cond : sp[n].cond[i].t = "brn"

\* C15: when an active spend's condition contains a Brn primitive, validate
\* does not return Ok
C15_BrnNeverValid ==
  (last.op = "validate" /\ HasBrn(spends)) => last.res # "Ok"

C15_Witness ==
  /\ last.op = "validate" /\ last.res = "MissingUnlocks"
  /\ DOMAIN spends = {BrnNote}
  /\ PresentSigs(spends[BrnNote]) # {}
  /\ Len(missing_unlocks(spends[BrnNote])) = 1

\* ---------------------------------------------------------------- C13
\* every SpendBuilder the caller or the builder holds
HeldBuilders ==
  {draft[i] : i \in DOMAIN draft} \cup {spends[n] : n \in DOMAIN spends}
    \cup {fee_pool[i] : i \in DOMAIN fee_pool}

\* C13: from_spend returns None whenever the note is V0 and the spend a
\* Witness spend, and whenever the note is V1 or later and the spend a Legacy
\* spend; no SpendBuilder got through new, from_spend or from_tx pairs a note
\* with the wrong spend variant
C13_VersionDiscipline ==
  /\ (/\ last.op = "from_spend"
      /\ \/ NoteVersion(last.args.notes[1]) = "V0" /\ last.args.variant = "witness"
         \/ NoteVersion(last.args.notes[1]) # "V0" /\ last.args.variant = "legacy")
       => last.res = "None"
  /\ \A sb \in HeldBuilders : (sb.version = "V0") <=> (sb.variant = "legacy")

C13_Witness ==
  /\ last.op = "from_spend" /\ last.res = "None"
  /\ NoteVersion(last.args.notes[1]) = "V2" /\ last.args.variant = "legacy"
  /\ \E n \in DOMAIN spends : spends[n].version = "V2"

\* ---------------------------------------------------------------- C19
\* the orders in which the items of a sequence can be inserted
Orders(items) ==
  {[i \in DOMAIN items |-> items[f[i]]] : f \in Permutations(DOMAIN items)}
\* the collection built from nothing by inserting items in the given order
Built(kind, items) ==
  IF kind = "set" THEN ZSet_from_iter(<<>>, items) ELSE ZMap_from_iter(<<>>, items)
\* the tree with every z-map entry reduced to its key
RECURSIVE Shape(_, _)
Shape(kind, tree) ==
  IF tree = <<>> THEN <<>>
  ELSE <<IF kind = "set" THEN tree[1] ELSE tree[1].key, Shape(kind, tree[2]),
         Shape(kind, tree[3])>>
\* no two entries handed to a z-map give one key two values
OneValuePerKey(items) ==
  \A i, j \in DOMAIN items : items[i].key = items[j].key => items[i] = items[j]

\* C19 as stated: a ZSet or ZMap built by inserting a collection of values
\* in any order is the same tree (so has the same hash and tap order) as the
\* one built by inserting them in any other order
C19_AnyOrderSameTree ==
  \A p \in Orders(zt.items) : Built(zt.kind, p) = zt.tree

\* C19 amended: the tree shape never depends on the order; the whole tree
\* (payloads, hence hash and tap order) is the same for a ZSet, and for a
\* ZMap whose entries give every key one value
C19_AnyOrderSameShape ==
  /\ \A p \in Orders(zt.items) :
       Shape(zt.kind, Built(zt.kind, p)) = Shape(zt.kind, zt.tree)
  /\ (zt.kind = "set" \/ OneValuePerKey(zt.items))
       => \A p \in Orders(zt.items) : Built(zt.kind, p) = zt.tree

\* three distinct seeds went in and a rotation moved the first one off the root
C19_Witness ==
  /\ zt.kind = "set"
  /\ Len(zt.items) = 3
  /\ Cardinality({zt.items[i] : i \in DOMAIN zt.items}) = 3
  /\ zt.tree[1] # zt.items[1]

\* ---------------------------------------------------------------- C20
\* what into_iter yields
Yielded == IF zt.kind = "set" THEN into_iter(zt.tree) ELSE ZMap_into_iter(zt.tree)

\* C20: into_iter on a ZSet or ZMap yields the node's payload, then the
\* elements of its left subtree, then those of its right subtree: the order
\* in which to_noun lays the tree out
C20_IterIsNounOrder == Yielded = to_noun_order(zt.tree)

\* ---------------------------------------------------------------- C16
\* the seeds of the active spends that carry a memo
MemoRefs(sp) ==
  LET refs == AllSeedRefs(sp, SpendNames(sp))
  IN {i \in DOMAIN refs : seed_has_memo(refs[i].seed)}
\* the locks of the seeds of the active spends
SeedLocks(sp) ==
  LET refs == AllSeedRefs(sp, SpendNames(sp)) IN {refs[i].seed.lock : i \in DOMAIN refs}
\* exactly one seed carries the memo, its lock root has the largest total
\* gift, and it is the last seed of its group's z-set in iteration order
MemoOnLastOfBest(sp) ==
  LET refs == AllSeedRefs(sp, SpendNames(sp))
  IN /\ Cardinality(MemoRefs(sp)) = 1
     /\ \A i \in MemoRefs(sp) :
          /\ \A l \in SeedLocks(sp) :
               LockTotal(refs, l) <= LockTotal(refs, refs[i].seed.lock)
          /\ LET ordered == into_iter(SeedsByLock(sp, refs[i].seed.lock))
             IN ordered[Len(ordered)] = refs[i].seed

\* a call of simple_spend_base with a memo returned Ok on a builder none of
\* whose seeds carried a memo
MemoSpendBase ==
  /\ count'.calls = count.calls + 1
  /\ last'.op = "simple_spend_base" /\ last'.res = "Ok" /\ last'.args.memo # 0
  /\ MemoRefs(spends) = {}

\* C16: after simple_spend_base with a memo on a builder whose seeds carry
\* no memo, exactly one seed of the active spends carries the memo; it is in
\* the lock-root group with the largest total gift and is the last seed of
\* that group's tap order
C16_MemoPlaced == [][MemoSpendBase => MemoOnLastOfBest(spends')]_vars

\* ---------------------------------------------------------------- C17
\* the memo sits on a refund seed of an active spend and the refund output
\* carries it
MemoOnRefund(sp) ==
  /\ \E n \in DOMAIN sp : HasRefund(sp[n]) /\ seed_has_memo(cur_refund(sp[n]))
  /\ RefundPkh \in SeedLocks(sp)
  /\ OutputNote(sp, RefundPkh).memos # <<>>

\* a fee re-balancing returned Ok
Rebalanced ==
  /\ count'.calls = count.calls + 1
  /\ last'.op \in {"recalc_and_set_fee", "set_fee_and_balance_refund"}
  /\ last'.res = "Ok"

\* C17: when the memo was placed on a refund seed, after a later successful
\* fee re-balancing the output note for the refund lock root, if the
\* transaction still has one, carries the memo
C17_MemoSurvives ==
  [][(Rebalanced /\ MemoOnRefund(spends))
       => (RefundPkh \in SeedLocks(spends') => OutputNote(spends', RefundPkh).memos # <<>>)]_vars

\* ---------------------------------------------------------------- C18
\* the notes of the active spends, their assets summed
RECURSIVE InputAssets(_, _)
InputAssets(sp, names) ==
  IF names = <<>> THEN 0 ELSE sp[Head(names)].assets + InputAssets(sp, Tail(names))
RECURSIVE SumOutputs(_)
SumOutputs(outs) == IF outs = <<>> THEN 0 ELSE Head(outs).assets + SumOutputs(Tail(outs))

\* C18: the assets of the output note of every lock root are the sum of the
\* gifts of all seeds, over all spends, with that lock root; the output
\* assets plus the fees of a balanced transaction are the assets of its
\* input notes
C18_OutputsSumGifts ==
  /\ \A l \in SeedLocks(spends) :
       OutputNote(spends, l).assets = LockTotal(AllSeedRefs(spends, SpendNames(spends)), l)
  /\ AllBalanced
       => SumOutputs(outputs(spends)) + cur_fee(spends)
            = InputAssets(spends, SpendNames(spends))

\* ---------------------------------------------------------------- C21
\* the step is a ZMap::insert of an entry whose key was inserted before
InsertOfPresentKey ==
  /\ zt.kind = "map"
  /\ Len(zt'.items) = Len(zt.items) + 1
  /\ \E i \in DOMAIN zt.items :
       NameTip(zt.items[i].key) = NameTip(zt'.items[Len(zt'.items)].key)

\* C21: ZMap::insert with a key whose hash equals that of a key already
\* present returns false and leaves the map unchanged: same tree (entries,
\* stored value, shape, hash)
C21_InsertPresentKeyNoChange ==
  [][InsertOfPresentKey => (zt'.ret = "false" /\ zt'.tree = zt.tree)]_vars

\* a key was inserted twice, with another value the second time, below the root
C21_Witness ==
  /\ zt.kind = "map" /\ zt.ret = "false"
  /\ Len(zt.items) = 3
  /\ zt.items[3].key = zt.items[2].key /\ zt.items[3].value # zt.items[2].value
  /\ zt.tree[1].key # zt.items[2].key

\* ---------------------------------------------------------------- C30
TipOf(x) == IF zt.kind = "set" THEN SeedTip(x) ELSE NameTip(x.key)
MorOf(x) == IF zt.kind = "set" THEN SeedMor(x) ELSE NameMor(x.key)
RECURSIVE Payloads(_)
Payloads(tree) ==
  IF tree = <<>> THEN {} ELSE {tree[1]} \cup Payloads(tree[2]) \cup Payloads(tree[3])
\* binary search tree on the primary order
RECURSIVE IsSearchTree(_)
IsSearchTree(tree) ==
  \/ tree = <<>>
  \/ /\ \A x \in Payloads(tree[2]) : TipOf(x) < TipOf(tree[1])
     /\ \A x \in Payloads(tree[3]) : TipOf(tree[1]) < TipOf(x)
     /\ IsSearchTree(tree[2]) /\ IsSearchTree(tree[3])
\* heap on the mor priority
RECURSIVE IsMorHeap(_)
IsMorHeap(tree) ==
  \/ tree = <<>>
  \/ /\ tree[2] # <<>> => MorOf(tree[1]) < MorOf(tree[2][1])
     /\ tree[3] # <<>> => MorOf(tree[1]) < MorOf(tree[3][1])
     /\ IsMorHeap(tree[2]) /\ IsMorHeap(tree[3])
\* the value of the first insert of the key of items[i]
FirstValue(items, i) ==
  items[CHOOSE j \in DOMAIN items :
          /\ items[j].key = items[i].key
          /\ \A k \in DOMAIN items : items[k].key = items[i].key => j <= k].value

\* C30: after any sequence of inserts the tree is a binary search tree on
\* the primary order and a heap on the mor priority, and ZMap::get(k) returns
\* the value stored by the first insert of k for every inserted key k
C30_TreapAndGet ==
  /\ IsSearchTree(zt.tree)
  /\ IsMorHeap(zt.tree)
  /\ zt.kind = "map"
       => \A i \in DOMAIN zt.items :
            get_inner(zt.tree, zt.items[i].key) = <<FirstValue(zt.items, i)>>

\* three distinct keys went into a z-map and a rotation took the first off
\* the root
C30_Witness ==
  /\ zt.kind = "map"
  /\ Len(zt.items) = 3
  /\ Cardinality({zt.items[i].key : i \in DOMAIN zt.items}) = 3
  /\ zt.tree[1] # zt.items[1]

\* ---------------------------------------------------------------- C22
\* C22: for every noun x, also one whose repeated atoms or sub-cells jam
\* encodes as back-references, cue(jam(x)) returns Some(x)
C22_CueInvertsJam ==
  last.op = "cue_jam" => last.res = [t |-> "Some", noun |-> last.args.noun]

\* ---------------------------------------------------------------- C23
\* C23: cue on any byte string returns Some or None and never aborts
C23_CueNeverAborts ==
  last.op = "cue" => last.res.t \in {"Some", "None"}

\* ---------------------------------------------------------------- C24
\* C24: for every private key sk and digest m, sk.public_key().verify(m,
\* sk.sign(m)) is true, also when the c or s that sign produced is 0 mod n
C24_OwnSignatureVerifies == last.op = "sign_verify" => last.res.ok

\* ---------------------------------------------------------------- C25
\* C25: a - b on private keys is defined also when b > a, and
\* (a - b) + b = a mod n
C25_SubThenAddIsIdentity ==
  last.op = "sub_add" =>
    last.res = [t |-> "Ok", key |-> last.args.a % G_ORDER]

\* ---------------------------------------------------------------- C26
FeeBalancingOps == {"set_fee_and_balance_refund", "recalc_and_set_fee"}

\* C26: on a builder reached from TxBuilder::new through public calls that all
\* returned Ok, set_fee_and_balance_refund and recalc_and_set_fee never return
\* AccountingMismatch
C26_NoAccountingMismatch ==
  [][(~failed /\ last'.op \in FeeBalancingOps) => last'.res # "AccountingMismatch"]_vars

\* C26 as the code has it: set_fee_and_balance_refund and recalc_and_set_fee
\* return AccountingMismatch only when some active spend has no refund lock
C26_MismatchNeedsNoRefundLock ==
  [][(last'.op \in FeeBalancingOps /\ last'.res = "AccountingMismatch")
       => \E n \in DOMAIN spends : spends[n].refund_lock = None]_vars

\* the fee was what calc_fee asks for, at least MIN_FEE, and was lowered to
\* zero on spends that all have a refund lock
C26_Witness ==
  /\ last.op = "set_fee_and_balance_refund"
  /\ last.res = "Ok"
  /\ last.args.fee = 0
  /\ last.pre.fee_exact
  /\ ~last.pre.empty
  /\ \A n \in DOMAIN spends : spends[n].refund_lock # None
  /\ \A i \in DOMAIN fee_pool : fee_pool[i].refund_lock # None

\* ---------------------------------------------------------------- C27
\* the fee-pool entry the loop of the fee-raising branch stops at with an
\* abort, <<>> if it does not abort
PoolAbortAt(fee_arg, adjust_fee) ==
  LET r1 == RaiseLoop([sp |-> spends, left |-> fee_arg - cur_fee(spends), panic |-> FALSE],
                      SortedNames(spends, DOMAIN spends, TRUE),
                      adjust_fee, include_lock_data, fee_per_word)
      r2 == PoolLoop([sp |-> r1.sp, pool |-> SortPool(<<>>, fee_pool),
                      left |-> r1.left, panic |-> FALSE],
                     adjust_fee, include_lock_data, fee_per_word)
  IN IF cur_fee(spends) < fee_arg /\ ~SortUnderflow(spends) /\ ~r1.panic /\ r2.panic
     THEN <<r2.pool[Len(r2.pool)]>>
     ELSE <<>>

\* a fee-pool entry that has no refund seed after compute_refund
NoRefundAfterCompute(r) ==
  ~RefundUnderflow(r) /\ ~HasRefund(compute_refund(r, include_lock_data))

\* C27: every SpendBuilder that fee balancing pops from fee_pool has a refund
\* seed after compute_refund: no call of set_fee_and_balance_refund from a
\* reachable builder stops at `Fee pool entry must have refund`
C27_PoppedEntryHasRefund ==
  ~aborted =>
    \A fee_arg \in Fees \cup {calc_fee(spends, fee_per_word)}, adjust_fee \in BOOLEAN :
      LET at == PoolAbortAt(fee_arg, adjust_fee)
      IN at # <<>> => ~NoRefundAfterCompute(at[1])

\* ---------------------------------------------------------------- C28
BalancingAndSpendOps ==
  {"simple_spend_base", "simple_spend", "set_fee_and_balance_refund", "recalc_and_set_fee"}
BuildErrors == {"ZeroGift", "InsufficientFunds", "AccountingMismatch"}

\* C28: when simple_spend_base, simple_spend, set_fee_and_balance_refund or
\* recalc_and_set_fee returns an error, the active spends and the fee pool
\* are what they were before the call
C28_ErrorLeavesBuilder ==
  [][(last'.op \in BalancingAndSpendOps /\ last'.res \in BuildErrors)
       => (spends' = spends /\ fee_pool' = fee_pool)]_vars

\* ---------------------------------------------------------------- C29
\* C29: whenever compute_refund runs on a SpendBuilder, its fee and the gifts
\* of its non-refund seeds together are at most note.assets, so the unsigned
\* subtraction does not underflow
C29_RefundNeverUnderflows ==
  [][(last'.op = "compute_refund" /\ draft # <<>>) => ~RefundUnderflow(draft[1])]_vars

====
